---- MODULE Spec2Model ----
(***************************************************************************)
(* Process lifecycle coordination of rbx-forge: the ProcessManager         *)
(* registry, its cleanup hooks and its memoized, two-tier-timeout          *)
(* cleanup.  The repository carries three revisions of the class; the      *)
(* model carries all three, selected by `variant`:                         *)
(*   "hooks" : src/unnamed/part_034 (cleanup hooks, ChildProcess.kill)     *)
(*   "tree"  : src/src/utils/process-manager.ts:1-326 (killProcessTree)    *)
(*   "bun"   : src/src/utils/process-manager.ts:328-590 (Bun subprocess)   *)
(* One action is one run-to-completion step of the event loop: everything  *)
(* a handler does up to its next await.                                    *)
(***************************************************************************)
EXTENDS Naturals, Sequences, FiniteSets, TLC

\* ---- bounds of the model ----
NumProcs == 2
NumHooks == 2
NumCallers == 2
MaxObservers == 2
NumPids == 4
MaxKillCalls == 2
MaxLines == 3
\* "unlink" events whose handlers are followed, and changes of the Studio
\* lock file, in one watch session.
MaxUnlinks == 2
MaxChanges == 3
\* SIGINTs the user sends while the open command waits for Studio.
MaxSigints == 2

Procs == 1..NumProcs
Hooks == 1..NumHooks
Callers == 1..NumCallers

Variants == {"hooks", "tree", "bun"}
IsNode(v) == v \in {"hooks", "tree"}

\* Outcomes of ChildProcess.kill(): signal delivered (returns true and sets
\* .killed), not delivered (returns false), or an exception.
KillOutcomes == {"sent", "failed", "throw"}
\* Outcomes of the promise of killProcessTree().
TreeOutcomes == {"ok", "throw"}

VARIABLES
    variant,         \* which revision of the class runs
    processes,       \* this.processes: Set<ChildProcess>, in insertion order
    exitListeners,   \* this.exitListeners: handles with a stored exit listener
    observers,       \* per handle: exit observers attached and yet to run
    cleanupHooks,    \* this.cleanupHooks: Set of hooks, in insertion order
    cleanupPromise,  \* this.cleanupPromise: "null", or the state of the promise
                     \* of the latest pass: "pending", "resolved", "rejected"
    isShuttingDown,  \* this.isShuttingDown
    warned,          \* register() has refused a handle (console.warn)
    autoRemoved,     \* an exit observer has removed a tracked handle
    pc,              \* position of performCleanup
    hookIdx,         \* number of entries of cleanupHooks the for-of has passed
    running,         \* hooks invoked and not yet settled
    hookCalls,       \* per hook: number of invocations
    hookFailed,      \* some hook threw or rejected
    passes,          \* number of times performCleanup was entered
    callerPromise,   \* per caller of cleanup(): the promise it was returned
                     \* (0: not called yet; n: the promise of the n-th pass)
    exitCode,        \* per handle: "null" until the exit event, then "set"
                     \* (an exit with a code; death by a signal is not modelled)
    killed,          \* per handle: the .killed flag
    timer,           \* handles whose graceful-shutdown timer is armed
    termResolved,    \* handles whose terminateProcess promise has resolved
    collected,       \* handles whose terminateProcess promise Promise.all awaits
    killing,         \* killProcessTree calls in flight: <<handle, signal, caller>>
    forced,          \* handles the manager has requested SIGKILL for
    \* -- signal wiring of the module (setupSignalHandlers) --
    signalHandlersSetup, \* the module-level flag
    handlers,        \* per event of `process`: listeners installed by the wiring
    awaiting,        \* per caller slot: the event whose handler awaits cleanup()
    exited,          \* "none", or the event whose handler called process.exit
    \* -- killProcessTree and the operating system's process table --
    platform,        \* process.platform: "posix" (linux, darwin) or "win32"
    parent,          \* per PID: its parent PID (0: init)
    alive,           \* the PIDs that exist
    members,         \* the PIDs of the tree under the root when the table was set up
    ktPc,            \* position of killProcessTree
    tree,            \* buildProcessTree: tree[pid], absent read as <<>>
    processQueue,    \* buildProcessTree: processQueue
    allPids,         \* the list buildProcessTree returned
    attempts,        \* PIDs process.kill was called on by this call, in order
    delivered,       \* PIDs this call has delivered its signal to
    calls,           \* number of killProcessTree calls made
    deadAtStart,     \* this call was given the root PID when no member of
                     \* the tree existed any more
    \* -- the server lock file (rojo-lock-manager.ts, lockfile.ts) --
    lockFile,        \* the file's lines (each a sequence of characters); <<>>: no file
    pidAlive,        \* a process with the recorded PID exists
    portBound,       \* some process listens on the recorded port
    rlPc,            \* position of readRojoLock
    lines,           \* readRojoLock: `lines`; <<>> before the file was read
    returned,        \* what readRojoLock returned: "pending", "null", "record"
    passed,          \* the checks of readRojoLock that have passed in this call
    cleanupPc,       \* position of cleanupLockfile: "idle", "retry", or how it
                     \* returned: "removed", "gone", "warned", "silent"
    attempt,         \* cleanupLockfile: the loop variable
    delays,          \* cleanupLockfile: the delays waited so far, in ms
    \* -- the shared multi-owner lock file (addPidToLockfile, ...) --
    sharedFile,      \* [exists, lines]: the file and its lines
    shPc,            \* position of the call in progress, or how the last one
                     \* ended: "idle", "returned", "threw"
    shOp,            \* the call in progress or last made: "none", "add", "remove"
    shPid,           \* its argument
    existingPids,    \* its `existingPids`
    shWarned,        \* it logged the manual-deletion warning
    sync,            \* syncback watch mode: the WatchState object, the clock,
                     \* the runs started and ended, the unlink handlers in
                     \* flight and the position of watchMode
    duel,            \* two serve invocations of one project: each one's position,
                     \* the lock it read, the PID the lock file records, the
                     \* servers running
    peer,            \* a second CLI process working on the same file:
                     \* [pc, op, pid, existingPids] of its call
    \* -- findAvailablePort --
    boundPorts,      \* the ports on which server.listen fails
    fpPc,            \* position of findAvailablePort: "idle", "probing",
                     \* "returned", "threw"
    startPort,       \* findAvailablePort: startPort
    index,           \* findAvailablePort: the loop variable
    probed,          \* the ports isPortAvailable was called on, in order
    foundPort,       \* the port returned; 0: none
    triedRange,      \* the range the error message names; <<>>: no error
    \* -- watchStudioLockFile (studio-lock-watcher.ts) --
    studioLock,      \* the Studio lock file exists
    changes,         \* number of times Studio has created or removed it
    hasOnStudioOpen, \* options.onStudioOpen is provided
    wPc,             \* position of watchStudioLockFile: "idle", "access",
                     \* "onOpen", "watching", "threw"; "exited": the signal
                     \* handler has ended the process
    wPromise,        \* the promise returned: "none", "pending", "resolved",
                     \* "rejected"
    watcher,         \* the FSWatcher: "none", "open", "closing" (close() is
                     \* pending), "closed", "closeFailed"
    closeRequested,  \* isShuttingDown of createCleanupHandler
    fsEvents,        \* events the watcher has yet to emit, oldest first
    unlinkPc,        \* per "unlink" event emitted: position of its handler
    shutdownPc,      \* per signal: position of its shutdown handler
    openCalls,       \* invocations of onStudioOpen
    closeCalls,      \* invocations of onStudioClose
    closeCompleted,  \* invocations of onStudioClose that have completed
    watchRevision,   \* which revision of watchStudioLockFile runs
    \* -- the commands (src/src/commands) --
    cmdPc,           \* position of the command's body
    cmdExit,         \* the code the body passed to process.exit: "none",
                     \* "zero", "nonzero"
    exitKind,        \* per handle: "unborn", "running", or how the
                     \* subprocess ended
    winner,          \* the handle whose promise settled Promise.race; 0: none
    faultPending,    \* a rejected promise nobody handles awaits its
                     \* unhandledRejection event
    removalsDone,    \* completed removePidFromLockfile(process.pid) calls
    unhookedEarly,   \* unregisterCleanupHook removed the command's hook
                     \* before cleanup() was first called
    command,         \* the command that runs: "none", "watch", "open", "start"
    aborted,         \* abortController.signal.aborted
    closeStep,       \* per "unlink" event: position of the command's
                     \* onStudioClose
    settledBy,       \* what settled the Promise.race of the open command:
                     \* "none", "script", "watcher"
    isLockFileCreated, \* waitForStudioLockOrInterrupt: the flag of that name
    sigintListener,  \* its sigintHandler is installed on `process`
    writesPending,   \* onStudioOpen calls awaiting writeStudioLockFile
    studioKill,      \* killProcess(studioPid): "none", "pending", "done",
                     \* "failed"
    sigints,         \* SIGINTs received so far
    \* -- run() with a cancellation signal (src/src/utils/run.ts:122-391) --
    runPc,           \* per handle: position of the run() call that spawns
                     \* it: "idle", "awaitExit", "aborted" (threw "Aborted"),
                     \* "resolved", "rejected"
    abortListener,   \* handles whose abortHandler listens on the signal
    abortKilled,     \* handles subprocess.kill() was called on by
                     \* setupAbortHandler or abortHandler
    \* -- stopExistingRojo (rojo-lock-manager.ts:86-109) --
    stopPc,          \* position of stopExistingRojo: "idle", "read", "kill",
                     \* "cleanup", "returned"; "reread": a later
                     \* readRojoLock of the same path is under way
    killResult       \* killProcess(lockData.pid): "none" (not called),
                     \* "pending", "ok", "failed"

pmVars == <<variant, processes, exitListeners, observers, cleanupHooks,
            cleanupPromise, isShuttingDown, warned, autoRemoved, pc, hookIdx, running,
            hookCalls, hookFailed, passes, callerPromise, exitCode, killed, timer,
            termResolved, collected, killing, forced>>
sigVars == <<signalHandlersSetup, handlers, awaiting, exited>>
\* The state of the other modules, which no ProcessManager step touches.
treeVars == <<platform, parent, alive, members, ktPc, tree, processQueue, allPids,
              attempts, delivered, calls, deadAtStart>>
lockVars == <<lockFile, pidAlive, portBound, rlPc, lines, returned, passed, cleanupPc,
              attempt, delays>>
sharedVars == <<sharedFile, shPc, shOp, shPid, existingPids, shWarned, peer, duel, sync>>
portVars == <<boundPorts, fpPc, startPort, index, probed, foundPort, triedRange>>
watchVars == <<studioLock, changes, hasOnStudioOpen, wPc, wPromise, watcher,
               closeRequested, fsEvents, unlinkPc, shutdownPc, openCalls, closeCalls,
               closeCompleted, watchRevision>>
watchCmdVars == <<winner, faultPending, removalsDone, unhookedEarly>>
studioCmdVars == <<aborted, closeStep, settledBy>>
launchVars == <<isLockFileCreated, sigintListener, writesPending, studioKill, sigints>>
runVars == <<runPc, abortListener, abortKilled>>
stopVars == <<stopPc, killResult>>
cmdVars == <<command, cmdPc, cmdExit, exitKind, watchCmdVars, studioCmdVars,
             launchVars, runVars, stopVars>>
utilVars == <<sharedVars, portVars, watchVars, cmdVars>>
restVars == <<treeVars, lockVars, utilVars>>

vars == <<pmVars, sigVars, restVars>>

hookVars == <<cleanupHooks, hookIdx, running, hookCalls, hookFailed>>
termVars == <<timer, termResolved, collected, killing, forced, killed>>
passVars == <<pc, cleanupPromise, passes, isShuttingDown, callerPromise>>

\* ---- JavaScript Set, kept as a duplicate-free sequence ----
Range(s) == {s[i] : i \in 1..Len(s)}
Has(s, x) == x \in Range(s)
NoDuplicates(s) == \A i, j \in 1..Len(s) : s[i] = s[j] => i = j
IndexOf(s, x) == CHOOSE i \in 1..Len(s) : s[i] = x
Remove(s, x) == SelectSeq(s, LAMBDA y : y # x)

Min(S) == CHOOSE x \in S : \A y \in S : x <= y
Max(S) == CHOOSE x \in S : \A y \in S : x >= y

SetAddAlways(s, x) == Append(s, x)
\* Set.prototype.add: appends unless the value is already a member.
SetAdd(s, x) == IF Has(s, x) THEN s ELSE Append(s, x)
\* Set.prototype.delete
SetDelete(s, x) == Remove(s, x)

\* The signals setupSignalHandlers listens to, and the further events the
\* "hooks" revision listens to.
Signals == {"SIGINT", "SIGTERM", "SIGQUIT"}
Faults == {"uncaughtException", "unhandledRejection"}
Events == Signals \cup Faults

\* Module state before setupSignalHandlers was called.
SignalInit ==
    /\ signalHandlersSetup = FALSE
    /\ handlers = [e \in Events |-> 0]
    /\ awaiting = [c \in Callers |-> "none"]
    /\ exited = "none"

ProcessManagerInit ==
    /\ variant \in Variants
    /\ processes = <<>>
    /\ exitListeners = {}
    /\ observers = [p \in Procs |-> 0]
    /\ cleanupHooks = <<>>
    /\ cleanupPromise = "null"
    /\ isShuttingDown = FALSE
    /\ warned = FALSE
    /\ autoRemoved = FALSE
    /\ pc = "idle"
    /\ hookIdx = 0
    /\ running = {}
    /\ hookCalls = [h \in Hooks |-> 0]
    /\ hookFailed = FALSE
    /\ passes = 0
    /\ callerPromise = [c \in Callers |-> 0]
    /\ exitCode = [p \in Procs |-> "null"]
    /\ killed = [p \in Procs |-> FALSE]
    /\ timer = {}
    /\ termResolved = {}
    /\ collected = {}
    /\ killing = {}
    /\ forced = {}

\* PIDs of the process table; 0 stands for init, which adopts orphans.
Pids == 1..NumPids
\* The PID killProcessTree is called with.
RootPid == 1

\* killProcessTree before its first call, over the table par.
TreeStart(par) ==
    /\ parent = par
    /\ alive = Pids
    /\ ktPc = "idle"
    /\ tree = [p \in Pids |-> <<>>]
    /\ processQueue = <<>>
    /\ allPids = <<>>
    /\ attempts = <<>>
    /\ delivered = {}
    /\ calls = 0
    /\ deadAtStart = FALSE

\* killProcessTree not in use; process.platform is left open.
TreeQuiet ==
    /\ members = {RootPid}
    /\ TreeStart([p \in Pids |-> 0])

TreeIdle == platform = "posix" /\ TreeQuiet

\* No call of readRojoLock or cleanupLockfile made yet, the lock file being f.
LockStart(f) ==
    /\ lockFile = f
    /\ rlPc = "idle"
    /\ lines = <<>>
    /\ returned = "pending"
    /\ passed = {}
    /\ cleanupPc = "idle"
    /\ attempt = 0
    /\ delays = <<>>

LockIdle == pidAlive = FALSE /\ portBound = FALSE /\ LockStart(<<>>)

\* The invocations of `serve` that run side by side; each spawns one server.
Invocations == 1..NumCallers
\* No invocation has started, no lock file, no server.
DuelIdle == [pc |-> [i \in Invocations |-> "idle"],
             lockData |-> [i \in Invocations |-> 0],
             lock |-> 0,
             up |-> {}]

\* Debounce delay of the change handler, in milliseconds.
DEBOUNCE_DELAY_MS == 1000
\* The clock advances in steps of TickMs up to MaxClock; Date.now() is far
\* beyond the debounce delay when the command starts.
TickMs == 500
MaxClock == 3000

\* initializeWatchState: the WatchState of a session that watches, in the
\* revision that sets up its own unlink handler ("inline").
SyncState(revision, lockExists) ==
    [revision |-> revision,
     lockExists |-> lockExists,
     hasLockfile |-> FALSE,
     isProcessing |-> FALSE,
     lastModified |-> 0,
     now |-> DEBOUNCE_DELAY_MS,
     started |-> 0,
     ended |-> 0,
     lastChange |-> "none",
     lastResult |-> "none",
     waiting |-> 0,
     lockClosing |-> 0,
     during |-> 0,
     pc |-> "watching"]
SyncIdle == SyncState("inline", FALSE)

\* The second CLI process before its call.
PeerIdle == [pc |-> "idle", op |-> "none", pid |-> 0, existingPids |-> <<>>]

\* The shared lock file before any call: no file.
SharedIdle ==
    /\ sharedFile = [exists |-> FALSE, lines |-> <<>>]
    /\ shPc = "idle"
    /\ shOp = "none"
    /\ shPid = 0
    /\ existingPids = <<>>
    /\ shWarned = FALSE
    /\ peer = PeerIdle
    /\ duel = DuelIdle
    /\ sync = SyncIdle

\* findAvailablePort before its call, started at port start.
PortStart(start) ==
    /\ fpPc = "idle"
    /\ startPort = start
    /\ index = 0
    /\ probed = <<>>
    /\ foundPort = 0
    /\ triedRange = <<>>

PortIdle == boundPorts = {} /\ PortStart(0)

\* The signals watchStudioLockFile listens to.
WatchSignals == {"SIGTERM", "SIGINT"}

\* watchStudioLockFile before its call.
WatchStart ==
    /\ changes = 0
    /\ wPc = "idle"
    /\ wPromise = "none"
    /\ watcher = "none"
    /\ closeRequested = FALSE
    /\ fsEvents = <<>>
    /\ unlinkPc = [i \in 1..MaxUnlinks |-> "none"]
    /\ shutdownPc = [sig \in WatchSignals |-> "unarmed"]
    /\ openCalls = 0
    /\ closeCalls = 0
    /\ closeCompleted = 0

\* The revisions of watchStudioLockFile the repository carries:
\*   "access" : src/src/utils/studio-lock-watcher.ts (checks for the file
\*              first; a signal rejects the promise)
\*   "plain"  : src/src/utils/format-duration.ts:76-184 (no check; a signal
\*              ends the process)
WatchRevisions == {"access", "plain"}

WatchIdle ==
    /\ studioLock = FALSE
    /\ hasOnStudioOpen = FALSE
    /\ watchRevision = "access"
    /\ WatchStart

\* A command before its first step.
CmdRest ==
    /\ cmdPc = "idle"
    /\ cmdExit = "none"
    /\ exitKind = [p \in Procs |-> "unborn"]
    /\ winner = 0
    /\ faultPending = FALSE
    /\ removalsDone = 0
    /\ unhookedEarly = FALSE
    /\ aborted = FALSE
    /\ closeStep = [i \in 1..MaxUnlinks |-> "none"]
    /\ settledBy = "none"
    /\ isLockFileCreated = FALSE
    /\ sigintListener = FALSE
    /\ writesPending = 0
    /\ studioKill = "none"
    /\ sigints = 0
    /\ runPc = [p \in Procs |-> "idle"]
    /\ abortListener = {}
    /\ abortKilled = {}
    /\ stopPc = "idle"
    /\ killResult = "none"

\* No command has been invoked.
CmdIdle == command = "none" /\ CmdRest

UtilIdle == SharedIdle /\ PortIdle /\ WatchIdle /\ CmdIdle

Init == ProcessManagerInit /\ SignalInit /\ TreeIdle /\ LockIdle /\ UtilIdle

\* ---- registry: register / unregister ----

ShuttingDownNever == FALSE
\* get shuttingDown(): the flag register() consults.
shuttingDown == isShuttingDown

\* The exit observer register() attaches: childProcess.on("exit", ...) on
\* Node, subprocess.exited.then(...) on Bun.
AttachObserverNone(p) == observers
AttachObserver(p) == [observers EXCEPT ![p] = @ + 1]

\* subprocess.exited of a Bun handle has already resolved: a callback
\* attached now runs at once.  An "exit" event of Node is never replayed.
ExitedSettled(p) == variant = "bun" /\ exitCode[p] = "set"

register(p) ==
    /\ observers[p] < MaxObservers
    /\ IF shuttingDown
       THEN /\ warned' = TRUE
            /\ UNCHANGED <<processes, exitListeners, observers>>
       ELSE /\ processes' = IF ExitedSettled(p)
                             THEN SetDelete(SetAdd(processes, p), p)
                             ELSE SetAdd(processes, p)
            /\ exitListeners' = IF IsNode(variant) THEN exitListeners \cup {p}
                                                   ELSE exitListeners
            /\ observers' = IF ExitedSettled(p) THEN observers
                                                ELSE AttachObserver(p)
            /\ UNCHANGED warned
    /\ UNCHANGED <<variant, exitCode, autoRemoved>>
    /\ UNCHANGED <<hookVars, termVars, passVars>>

\* The effect of unregister(p) on the three registry fields.
UnregisterAll(p) == <<>>
UnregisterProcesses(p) == SetDelete(processes, p)
UnregisterListeners(p) == exitListeners \ {p}
UnregisterObservers(p) ==
    IF IsNode(variant) /\ p \in exitListeners /\ observers[p] > 0
    THEN [observers EXCEPT ![p] = @ - 1]
    ELSE observers

unregister(p) ==
    /\ Has(processes, p) \/ p \in exitListeners
    /\ processes' = UnregisterProcesses(p)
    /\ exitListeners' = UnregisterListeners(p)
    /\ observers' = UnregisterObservers(p)
    /\ UNCHANGED <<variant, exitCode, warned, autoRemoved>>
    /\ UNCHANGED <<hookVars, termVars, passVars>>

\* ---- cleanup hooks (only the "hooks" revision has them) ----

\* this.cleanupHooks is read by the loop of performCleanup alone: once the
\* loop has ended the set is dead, and calls that change it are not modelled.
\* A hook is registered by its command once (watch.ts:225): a hook the loop
\* has already invoked is not registered a second time.
HooksLive == pc \in {"idle", "awaitHook"}

registerCleanupHook(h) ==
    /\ variant = "hooks"
    /\ HooksLive
    /\ ~Has(cleanupHooks, h)
    /\ hookCalls[h] = 0
    /\ cleanupHooks' = SetAdd(cleanupHooks, h)
    /\ UNCHANGED <<hookIdx, running, hookCalls, hookFailed>>
    /\ UNCHANGED <<variant, processes, exitListeners, observers, warned, autoRemoved, exitCode>>
    /\ UNCHANGED <<termVars, passVars>>

unregisterKeepsHook(h) ==
    /\ variant = "hooks"
    /\ HooksLive
    /\ Has(cleanupHooks, h)
    /\ UNCHANGED <<cleanupHooks, hookIdx, running, hookCalls, hookFailed>>
    /\ UNCHANGED <<variant, processes, exitListeners, observers, warned, autoRemoved, exitCode>>
    /\ UNCHANGED <<termVars, passVars>>
\* Deleting an entry the for-of of performCleanup has already passed moves
\* the iterator back with it.
unregisterCleanupHook(h) ==
    /\ variant = "hooks"
    /\ HooksLive
    /\ Has(cleanupHooks, h)
    /\ cleanupHooks' = SetDelete(cleanupHooks, h)
    /\ hookIdx' = IF IndexOf(cleanupHooks, h) <= hookIdx THEN hookIdx - 1 ELSE hookIdx
    /\ UNCHANGED <<running, hookCalls, hookFailed>>
    /\ UNCHANGED <<variant, processes, exitListeners, observers, warned, autoRemoved, exitCode>>
    /\ UNCHANGED <<termVars, passVars>>

\* ---- cleanupProcesses: the synchronous start of process termination ----

\* collectProcessCleanupPromises: the guard on each tracked handle.
ShouldTerminate(p) == ~killed[p] /\ exitCode[p] = "null"
ToTerminate == {p \in Range(processes) : ShouldTerminate(p)}

\* The .killed flags after ChildProcess.kill() was called on the handles of
\* T with outcomes o: a delivered signal sets the flag.
KilledAfter(T, o) == [p \in Procs |-> killed[p] \/ (p \in T /\ o[p] = "sent")]

\* Promise.all over the collected terminateProcess promises has resolved.
AllResolved(c, tr) == c \subseteq tr

\* o: outcome of ChildProcess.kill("SIGTERM") per handle ("hooks" revision).
cleanupProcesses(o) ==
    LET T == ToTerminate
        threw == IF variant = "hooks" THEN {p \in T : o[p] = "throw"} ELSE {}
        tr == termResolved \cup threw
    IN  /\ collected' = T
        /\ forced' = forced
        /\ killed' = IF variant = "hooks" THEN KilledAfter(T, o) ELSE killed
        /\ timer' = CASE variant = "hooks" -> timer \cup (T \ threw)
                      [] variant = "tree" -> timer \cup T
                      [] OTHER -> timer
        /\ killing' = IF variant = "hooks" THEN killing
                      ELSE killing \cup {<<p, "SIGTERM", "graceful">> : p \in T}
        /\ termResolved' = tr
        /\ IF T = {}
           THEN pc' = "done" /\ cleanupPromise' = "resolved"
                /\ processes' = processes
           ELSE IF AllResolved(T, tr)
           THEN pc' = "done" /\ cleanupPromise' = "resolved"
                /\ processes' = <<>>
           ELSE pc' = "procs" /\ cleanupPromise' = "pending"
                /\ processes' = processes

\* ---- performCleanup: the hook loop, then cleanupProcesses ----

HookLoopSkipped(i) == TRUE
\* The for-of over this.cleanupHooks, having passed i entries, is exhausted.
HookLoopDone(i) == i >= Len(cleanupHooks)

\* performCleanup from the head of its loop, i entries passed and the hooks r
\* unsettled, up to the next await: invoke the next hook, or go on to
\* cleanupProcesses.
performCleanup(i, r, o) ==
    IF ~HookLoopDone(i)
    THEN LET h == cleanupHooks[i + 1]
         IN  /\ hookIdx' = i + 1
             /\ running' = r \cup {h}
             /\ hookCalls' = [hookCalls EXCEPT ![h] = @ + 1]
             /\ pc' = "awaitHook"
             /\ cleanupPromise' = "pending"
             /\ UNCHANGED <<cleanupHooks, processes, termVars>>
    ELSE /\ cleanupProcesses(o)
         /\ hookIdx' = i
         /\ running' = r
         /\ UNCHANGED <<cleanupHooks, hookCalls>>

NoMemo == FALSE
\* cleanup(): `if (this.cleanupPromise)`.
HasCleanupPromise == cleanupPromise # "null"

FlagLeftUnset == isShuttingDown
\* cleanup(): `this.isShuttingDown = true`.
FlagOnCleanup == TRUE

cleanup(c, o) ==
    /\ callerPromise[c] = 0
    /\ callerPromise' = [callerPromise EXCEPT ![c] =
                            IF HasCleanupPromise THEN passes ELSE passes + 1]
    /\ IF HasCleanupPromise
       THEN UNCHANGED <<pc, cleanupPromise, passes, isShuttingDown, processes,
                        hookVars, termVars>>
       ELSE /\ isShuttingDown' = FlagOnCleanup
            /\ passes' = passes + 1
            /\ performCleanup(0, running, o)
            /\ UNCHANGED hookFailed
    /\ UNCHANGED <<variant, exitListeners, observers, warned, autoRemoved, exitCode>>

HookErrorEscapes(result) == result # "throw"
\* performCleanup: the try/catch around `await hook()`.
HookErrorCaught(result) == TRUE

\* The awaited hook settles; the loop goes on.
HookSettle(h, result, o) ==
    /\ pc = "awaitHook"
    /\ h \in running
    /\ hookFailed' = (hookFailed \/ result = "throw")
    /\ IF HookErrorCaught(result)
       THEN performCleanup(hookIdx, running \ {h}, o)
       ELSE /\ pc' = "rejected"
            /\ cleanupPromise' = "rejected"
            /\ running' = running \ {h}
            /\ UNCHANGED <<cleanupHooks, hookIdx, hookCalls, processes,
                           termVars>>
    /\ UNCHANGED <<passes, isShuttingDown, callerPromise>>
    /\ UNCHANGED <<variant, exitListeners, observers, warned, autoRemoved, exitCode>>

\* ---- per-process termination: timers, exit events, killProcessTree ----

\* A terminateProcess promise resolves: termResolved becomes tr and the
\* registry ps; if Promise.all is thereby complete, cleanupProcesses clears
\* the registry and the cleanup promise resolves.
AfterResolve(tr, ps) ==
    /\ termResolved' = tr
    /\ IF pc = "procs" /\ AllResolved(collected, tr)
       THEN pc' = "done" /\ cleanupPromise' = "resolved" /\ processes' = <<>>
       ELSE pc' = pc /\ cleanupPromise' = cleanupPromise /\ processes' = ps

\* forceKillProcess: `if (childProcess.killed) return` lets the kill through.
ForceKillAllowed(p) == ~killed[p]

\* The graceful-shutdown timer of p fires: forceKillProcess(p), then the
\* terminateProcess promise resolves (at once, or when killProcessTree has
\* settled).  o: outcome of ChildProcess.kill("SIGKILL") ("hooks" revision).
GracefulTimeout(p, o) ==
    /\ p \in timer
    /\ timer' = timer \ {p}
    /\ IF ~ForceKillAllowed(p)
       THEN /\ AfterResolve(termResolved \cup {p}, processes)
            /\ UNCHANGED <<forced, killed, killing>>
       ELSE /\ forced' = forced \cup {p}
            /\ IF variant = "hooks"
               THEN /\ killed' = KilledAfter({p}, [q \in Procs |-> o])
                    /\ AfterResolve(termResolved \cup {p}, processes)
                    /\ UNCHANGED killing
               ELSE /\ killing' = killing \cup {<<p, "SIGKILL", "force">>}
                    /\ UNCHANGED <<killed, termResolved, pc, cleanupPromise,
                                   processes>>
    /\ UNCHANGED <<collected>>
    /\ UNCHANGED <<passes, isShuttingDown, callerPromise, hookVars>>
    /\ UNCHANGED <<variant, exitListeners, observers, warned, autoRemoved, exitCode>>

\* The exit event of p: the manager's observer unregisters p; the exit
\* listener of terminateProcess (Node) or its race on subprocess.exited (Bun)
\* clears the timer and resolves the terminateProcess promise.
ObserverRemoves(p) == observers[p] > 0

ProcExit(p) ==
    /\ exitCode[p] = "null"
    /\ exitCode' = [exitCode EXCEPT ![p] = "set"]
    /\ exitListeners' = IF ObserverRemoves(p) THEN UnregisterListeners(p)
                                              ELSE exitListeners
    /\ observers' = [observers EXCEPT ![p] = 0]
    /\ timer' = timer \ {p}
    /\ LET ps == IF ObserverRemoves(p) THEN UnregisterProcesses(p) ELSE processes
           waiting == IF IsNode(variant) THEN p \in collected ELSE p \in timer
       IN  AfterResolve(IF waiting THEN termResolved \cup {p} ELSE termResolved, ps)
    /\ UNCHANGED <<collected, killing, forced, killed>>
    /\ UNCHANGED <<passes, isShuttingDown, callerPromise, hookVars>>
    /\ autoRemoved' = (autoRemoved \/ (ObserverRemoves(p) /\ Has(processes, p)))
    /\ UNCHANGED <<variant, warned>>

RemainingKillEscapes(outcome) == outcome # "throw"
\* forceKillRemainingProcesses: the try/catch (or .catch) around each kill.
RemainingKillCaught(outcome) == TRUE

\* The overall cleanup timeout wins the race of withTimeout:
\* forceKillRemainingProcesses, then the registry is cleared.
\* o: outcome of ChildProcess.kill("SIGKILL") per handle ("hooks" revision).
OverallTimeout(o) ==
    LET R == ToTerminate
    IN  /\ pc = "procs"
        /\ forced' = forced \cup R
        /\ IF variant = "hooks"
           THEN /\ killed' = KilledAfter(R, o)
                /\ UNCHANGED killing
                /\ IF \A p \in R : RemainingKillCaught(o[p])
                   THEN pc' = "done" /\ cleanupPromise' = "resolved"
                        /\ processes' = <<>>
                   ELSE pc' = "rejected" /\ cleanupPromise' = "rejected"
                        /\ processes' = processes
           ELSE /\ killing' = killing \cup {<<p, "SIGKILL", "remaining">> : p \in R}
                /\ UNCHANGED killed
                /\ IF R = {}
                   THEN pc' = "done" /\ cleanupPromise' = "resolved"
                        /\ processes' = <<>>
                   ELSE pc' = "forceKill" /\ cleanupPromise' = cleanupPromise
                        /\ processes' = processes
        /\ UNCHANGED <<timer, termResolved, collected>>
        /\ UNCHANGED <<passes, isShuttingDown, callerPromise, hookVars>>
        /\ UNCHANGED <<variant, exitListeners, observers, warned, autoRemoved, exitCode>>

\* A killProcessTree call k = <<handle, signal, caller>> settles.
KillProcessTreeDone(k, outcome) ==
    LET p == k[1]
        who == k[3]
        left == killing \ {k}
    IN  /\ k \in killing
        /\ killing' = left
        /\ CASE who = "graceful" /\ variant = "tree" ->
                 \* tryGracefulKill: false on failure resolves the promise
                 IF outcome = "ok"
                 THEN UNCHANGED <<timer, termResolved, pc, cleanupPromise, processes>>
                 ELSE /\ timer' = timer \ {p}
                      /\ AfterResolve(termResolved \cup {p}, processes)
             [] who = "graceful" /\ variant # "tree" ->
                 \* Bun terminateProcess: race subprocess.exited against the timer
                 IF exitCode[p] = "set"
                 THEN /\ AfterResolve(termResolved \cup {p}, processes)
                      /\ UNCHANGED timer
                 ELSE /\ timer' = timer \cup {p}
                      /\ UNCHANGED <<termResolved, pc, cleanupPromise, processes>>
             [] who = "force" ->
                 /\ AfterResolve(termResolved \cup {p}, processes)
                 /\ UNCHANGED timer
             [] OTHER ->
                 /\ UNCHANGED <<timer, termResolved>>
                 /\ IF ~RemainingKillCaught(outcome) /\ pc = "forceKill"
                    THEN pc' = "rejected" /\ cleanupPromise' = "rejected"
                         /\ processes' = processes
                    ELSE IF pc = "forceKill" /\ ~\E j \in left : j[3] = "remaining"
                    THEN pc' = "done" /\ cleanupPromise' = "resolved"
                         /\ processes' = <<>>
                    ELSE UNCHANGED <<pc, cleanupPromise, processes>>
        /\ UNCHANGED <<collected, forced, killed>>
        /\ UNCHANGED <<passes, isShuttingDown, callerPromise, hookVars>>
        /\ UNCHANGED <<variant, exitListeners, observers, warned, autoRemoved, exitCode>>

\* ---- the program ----

\* Only ChildProcess.kill of the "hooks" revision has a synchronous outcome.
KillChoices == IF variant = "hooks" THEN KillOutcomes ELSE {"sent"}
KillFns == [Procs -> KillChoices]

Next ==
    \/ \E p \in Procs :
          register(p) /\ UNCHANGED <<sigVars, restVars>>
    \/ \E p \in Procs :
          unregister(p) /\ UNCHANGED <<sigVars, restVars>>
    \/ \E h \in Hooks :
          registerCleanupHook(h) /\ UNCHANGED <<sigVars, restVars>>
    \/ \E h \in Hooks :
          unregisterCleanupHook(h) /\ UNCHANGED <<sigVars, restVars>>
    \/ \E c \in Callers, o \in KillFns :
          cleanup(c, o) /\ UNCHANGED <<sigVars, restVars>>
    \/ \E h \in Hooks, r \in {"ok", "throw"}, o \in KillFns :
          HookSettle(h, r, o) /\ UNCHANGED <<sigVars, restVars>>
    \/ \E p \in Procs, o \in KillChoices :
          GracefulTimeout(p, o) /\ UNCHANGED <<sigVars, restVars>>
    \/ \E p \in Procs :
          ProcExit(p) /\ UNCHANGED <<sigVars, restVars>>
    \/ \E o \in KillFns :
          OverallTimeout(o) /\ UNCHANGED <<sigVars, restVars>>
    \/ \E k \in killing, r \in TreeOutcomes :
          KillProcessTreeDone(k, r) /\ UNCHANGED <<sigVars, restVars>>

Spec == Init /\ [][Next]_vars

\* Timers fire, the commands behind killProcessTree return and hooks
\* settle; a subprocess is under no obligation to exit.
Fairness ==
    /\ WF_vars(\E h \in Hooks, r \in {"ok", "throw"}, o \in KillFns :
                  HookSettle(h, r, o) /\ UNCHANGED <<sigVars, restVars>>)
    /\ WF_vars(\E o \in KillFns :
                  OverallTimeout(o) /\ UNCHANGED <<sigVars, restVars>>)
    /\ WF_vars(\E p \in Procs, o \in KillChoices :
                  GracefulTimeout(p, o) /\ UNCHANGED <<sigVars, restVars>>)
    /\ WF_vars(\E k \in killing, r \in TreeOutcomes :
                  KillProcessTreeDone(k, r) /\ UNCHANGED <<sigVars, restVars>>)

\* For liveness a handle is registered once and the hooks are registered in
\* the order of their numbers; hooks and handles are interchangeable, and
\* none of the fair actions registers anything.
OnceEach ==
    /\ \A p \in Procs : observers[p] <= 1
    /\ \E n \in 0..NumHooks : cleanupHooks = [i \in 1..n |-> i]

LiveNext ==
    \/ \E p \in Procs :
          register(p) /\ OnceEach' /\ UNCHANGED <<sigVars, restVars>>
    \/ \E p \in Procs :
          unregister(p) /\ UNCHANGED <<sigVars, restVars>>
    \/ \E h \in Hooks :
          registerCleanupHook(h) /\ OnceEach' /\ UNCHANGED <<sigVars, restVars>>
    \/ \E h \in Hooks :
          unregisterCleanupHook(h) /\ OnceEach' /\ UNCHANGED <<sigVars, restVars>>
    \/ \E c \in Callers, o \in KillFns :
          cleanup(c, o) /\ UNCHANGED <<sigVars, restVars>>
    \/ \E h \in Hooks, r \in {"ok", "throw"}, o \in KillFns :
          HookSettle(h, r, o) /\ UNCHANGED <<sigVars, restVars>>
    \/ \E p \in Procs, o \in KillChoices :
          GracefulTimeout(p, o) /\ UNCHANGED <<sigVars, restVars>>
    \/ \E p \in Procs :
          ProcExit(p) /\ UNCHANGED <<sigVars, restVars>>
    \/ \E o \in KillFns :
          OverallTimeout(o) /\ UNCHANGED <<sigVars, restVars>>
    \/ \E k \in killing, r \in TreeOutcomes :
          KillProcessTreeDone(k, r) /\ UNCHANGED <<sigVars, restVars>>

LiveSpec == Init /\ [][LiveNext]_vars /\ Fairness

\* The same program with hooks under no obligation to settle: only the
\* timers and the commands behind killProcessTree are sure to finish.
TimerFairness ==
    /\ WF_vars(\E o \in KillFns :
                  OverallTimeout(o) /\ UNCHANGED <<sigVars, restVars>>)
    /\ WF_vars(\E p \in Procs, o \in KillChoices :
                  GracefulTimeout(p, o) /\ UNCHANGED <<sigVars, restVars>>)
    /\ WF_vars(\E k \in killing, r \in TreeOutcomes :
                  KillProcessTreeDone(k, r) /\ UNCHANGED <<sigVars, restVars>>)

HookStallSpec == Init /\ [][LiveNext]_vars /\ TimerFairness

\* ---- setupSignalHandlers: the module's wiring of `process` events ----

\* The events the wiring listens to: the three signals, and in the "hooks"
\* revision uncaughtException and unhandledRejection as well.
WiredEvents == IF variant = "hooks" THEN Events ELSE Signals

\* The CLI process has not been ended by process.exit.
Running == exited = "none"

\* if (signalHandlersSetup) return;
SetupNeverSeen == FALSE
AlreadySetup == signalHandlersSetup

setupSignalHandlers ==
    /\ Running
    /\ signalHandlersSetup' = TRUE
    /\ handlers' = IF AlreadySetup
                   THEN handlers
                   ELSE [e \in Events |->
                            IF e \in WiredEvents THEN handlers[e] + 1 ELSE handlers[e]]
    /\ UNCHANGED <<awaiting, exited, pmVars, restVars>>

\* The "hooks" revision awaits cleanup() and then calls process.exit; the
\* later revisions call `void processManager.cleanup()` and return.
HandlerAwaits == variant = "hooks"

\* The listener of event e runs, up to its await: it calls cleanup().
\* c: the caller slot of this call; o: as for cleanup.
Handler(e, c, o) ==
    /\ Running
    /\ handlers[e] > 0
    /\ cleanup(c, o)
    /\ awaiting' = IF HandlerAwaits THEN [awaiting EXCEPT ![c] = e] ELSE awaiting
    /\ UNCHANGED <<signalHandlersSetup, handlers, exited, restVars>>

\* The continuation of `await processManager.cleanup()`: process.exit.
HandlerResume(c) ==
    /\ Running
    /\ awaiting[c] # "none"
    /\ cleanupPromise = "resolved"
    /\ exited' = awaiting[c]
    /\ UNCHANGED <<signalHandlersSetup, handlers, awaiting, pmVars, restVars>>

\* The wiring with the subprocess events around it; cleanup() is called by
\* the handlers alone.
SignalNext ==
    \/ setupSignalHandlers
    \/ \E e \in Events, c \in Callers, o \in KillFns : Handler(e, c, o)
    \/ \E c \in Callers : HandlerResume(c)
    \/ \E p \in Procs :
          Running /\ register(p) /\ UNCHANGED <<sigVars, restVars>>
    \/ \E p \in Procs :
          Running /\ ProcExit(p) /\ UNCHANGED <<sigVars, restVars>>
    \/ \E p \in Procs, o \in KillChoices :
          Running /\ GracefulTimeout(p, o) /\ UNCHANGED <<sigVars, restVars>>
    \/ \E o \in KillFns :
          Running /\ OverallTimeout(o) /\ UNCHANGED <<sigVars, restVars>>
    \/ \E k \in killing, r \in TreeOutcomes :
          Running /\ KillProcessTreeDone(k, r) /\ UNCHANGED <<sigVars, restVars>>

SignalSpec == Init /\ [][SignalNext]_vars

\* ---- killProcessTree (kill-process-tree.ts) ----

\* Process tables: every PID's chain of parents ends at init.
RECURSIVE ReachesInit(_, _, _)
ReachesInit(par, p, n) ==
    IF p = 0 THEN TRUE
    ELSE IF n = 0 THEN FALSE
    ELSE ReachesInit(par, par[p], n - 1)
Tables == {par \in [Pids -> Pids \cup {0}] :
              \A p \in Pids : ReachesInit(par, p, NumPids)}

\* The PIDs below the PIDs of S in the table par.
RECURSIVE Below(_, _)
Below(par, S) ==
    LET N == S \cup {q \in Pids : par[q] \in S}
    IN  IF N = S THEN S ELSE Below(par, N)

\* A set of PIDs as `ps` / `pgrep` print it: ascending.
RECURSIVE Ascending(_)
Ascending(S) ==
    IF S = {} THEN <<>>
    ELSE LET m == CHOOSE x \in S : \A y \in S : x <= y
         IN  <<m>> \o Ascending(S \ {m})

TreeInit ==
    /\ variant = "tree"
    /\ ProcessManagerInit
    /\ SignalInit
    /\ LockIdle
    /\ UtilIdle
    /\ platform \in {"posix", "win32"}
    /\ \E par \in Tables : TreeStart(par)
    /\ members = Below(parent, {RootPid})

\* getChildPids(pid): the children `ps --ppid` lists, or [] when the command
\* fails (ok = FALSE) or prints nothing.
getChildPids(pid, ok) ==
    IF ok THEN Ascending({q \in alive : parent[q] = pid}) ELSE <<>>

\* collectPids: depth-first, the children of a PID before the PID itself.
\* acc = [all |-> allPids, visited |-> visited].
RECURSIVE collectPids(_, _, _)
RECURSIVE collectChildren(_, _, _, _)
collectPids(t, pid, acc) ==
    IF pid \in acc.visited THEN acc
    ELSE LET a == collectChildren(t, t[pid], 1,
                                  [acc EXCEPT !.visited = @ \cup {pid}])
         IN  [a EXCEPT !.all = Append(@, pid)]
collectChildren(t, kids, i, acc) ==
    IF i > Len(kids) THEN acc
    ELSE collectChildren(t, kids, i + 1, collectPids(t, kids[i], acc))

FlattenRootOnly(t) == <<RootPid>>
\* The flat list buildProcessTree returns for the recorded tree t.
Flatten(t) == collectPids(t, RootPid, [all |-> <<>>, visited |-> {}]).all

\* tree after the children kids of one PID were recorded.
RecordChildren(t, pid, kids) ==
    [q \in Pids |-> IF q = pid THEN kids
                    ELSE IF Has(kids, q) THEN <<>>
                    ELSE t[q]]

NoCallRunning == ktPc \in {"idle", "done", "failed"}

\* killProcessTree(pid, signal) up to its first await.
killProcessTree(defined) ==
    /\ NoCallRunning
    /\ calls < MaxKillCalls
    /\ calls' = calls + 1
    /\ deadAtStart' = (defined /\ members \cap alive = {})
    /\ attempts' = <<>>
    /\ delivered' = {}
    /\ allPids' = <<>>
    /\ tree' = [p \in Pids |-> <<>>]
    /\ IF ~defined
       THEN ktPc' = "failed" /\ processQueue' = <<>>
       ELSE IF platform = "win32"
       THEN ktPc' = "taskkill" /\ processQueue' = <<>>
       ELSE ktPc' = "walk" /\ processQueue' = <<RootPid>>
    /\ UNCHANGED <<platform, parent, alive, members>>

\* One turn of the loop of buildProcessTree: the awaited getChildPids
\* returns.  When the queue runs empty the tree is flattened.
WalkStep(ok) ==
    /\ ktPc = "walk"
    /\ LET currentPid == Head(processQueue)
           children == getChildPids(currentPid, ok)
           t == RecordChildren(tree, currentPid, children)
           queue == Tail(processQueue) \o children
       IN  /\ tree' = t
           /\ processQueue' = queue
           /\ IF queue = <<>>
              THEN ktPc' = "kill" /\ allPids' = Flatten(t)
              ELSE ktPc' = "walk" /\ allPids' = allPids
    /\ UNCHANGED <<platform, parent, alive, members, attempts, delivered, calls,
                   deadAtStart>>

KillSequenceReversed(pids) == [i \in 1..Len(pids) |-> pids[Len(pids) + 1 - i]]
\* killPids: `for (const pid of pids)`.
KillSequence(pids) == pids

\* What process.kill(pid, signal) can do: deliver, or throw ESRCH for a PID
\* that does not exist, or throw EPERM.
KillErrors(pid) == IF pid \in alive THEN {"none", "EPERM"} ELSE {"ESRCH"}

SkipsNothing(err) == FALSE
\* killPids: the error is swallowed and the loop continues.
IsSkipped(err) == err = "ESRCH"

\* One turn of the loop of killPids.
KillStep(err) ==
    /\ ktPc = "kill"
    /\ LET pid == KillSequence(allPids)[Len(attempts) + 1]
       IN  /\ err \in KillErrors(pid)
           /\ attempts' = Append(attempts, pid)
           /\ delivered' = IF err = "none" THEN delivered \cup {pid} ELSE delivered
           /\ ktPc' = IF err # "none" /\ ~IsSkipped(err) THEN "failed"
                       ELSE IF Len(attempts) + 1 = Len(allPids) THEN "done"
                       ELSE "kill"
    /\ UNCHANGED <<platform, parent, alive, members, tree, processQueue, allPids,
                   calls, deadAtStart>>

\* Exit code of taskkill for a PID that does not exist.
TaskkillNotFound == 128
\* Exit codes of `taskkill /pid PID /T /F`: success, or a failure.
TaskkillCodes == IF RootPid \in alive THEN {0, 1} ELSE {TaskkillNotFound}

TaskkillIgnoresNone(code) == FALSE
\* killProcessTreeWindows: the failure that is swallowed.
TaskkillIgnored(code) == code = TaskkillNotFound

\* killProcessTreeWindows: the awaited taskkill returns.
TaskkillDone(code) ==
    /\ ktPc = "taskkill"
    /\ code \in TaskkillCodes
    /\ delivered' = IF code = 0 THEN Below(parent, {RootPid}) \cap alive
                                ELSE delivered
    /\ ktPc' = IF code = 0 \/ TaskkillIgnored(code) THEN "done" ELSE "failed"
    /\ UNCHANGED <<platform, parent, alive, members, tree, processQueue, allPids,
                   attempts, calls, deadAtStart>>

\* A process exits: init adopts its children.
ProcessDies(p) ==
    /\ p \in alive
    /\ alive' = alive \ {p}
    /\ parent' = [q \in Pids |-> IF parent[q] = p THEN 0 ELSE parent[q]]
    /\ UNCHANGED <<platform, members, ktPc, tree, processQueue, allPids, attempts,
                   delivered, calls, deadAtStart>>

TreeNext ==
    \/ \E defined \in BOOLEAN :
          killProcessTree(defined) /\ UNCHANGED <<pmVars, sigVars, lockVars, utilVars>>
    \/ \E ok \in BOOLEAN :
          WalkStep(ok) /\ UNCHANGED <<pmVars, sigVars, lockVars, utilVars>>
    \/ \E err \in {"none", "ESRCH", "EPERM"} :
          KillStep(err) /\ UNCHANGED <<pmVars, sigVars, lockVars, utilVars>>
    \/ \E code \in {0, 1, TaskkillNotFound} :
          TaskkillDone(code) /\ UNCHANGED <<pmVars, sigVars, lockVars, utilVars>>
    \/ \E p \in Pids :
          ProcessDies(p) /\ UNCHANGED <<pmVars, sigVars, lockVars, utilVars>>

TreeSpec == TreeInit /\ [][TreeNext]_vars

\* The awaited getChildPids of a walk under way does return.
TreeLiveSpec ==
    /\ TreeSpec
    /\ WF_vars(\E ok \in BOOLEAN :
                  WalkStep(ok) /\ UNCHANGED <<pmVars, sigVars, lockVars, utilVars>>)

\* ---- the server lock file: readRojoLock and cleanupLockfile ----

MAX_LOCKFILE_CLEANUP_RETRIES == 10
BASE_RETRY_DELAY_MS == 100

\* Lines a lock file may hold, as sequences of characters.
Digits == {"0", "1", "2", "3", "4", "5", "6", "7", "8", "9"}
DigitValue(c) == CHOOSE n \in 0..9 :
    c = <<"0", "1", "2", "3", "4", "5", "6", "7", "8", "9">>[n + 1]
LineSet == {<<>>, <<"x">>, <<"7">>, <<"7", "x">>, <<" ", "7">>}
RECURSIVE SeqsUpTo(_, _)
SeqsUpTo(S, n) ==
    IF n = 0 THEN {<<>>}
    ELSE LET T == SeqsUpTo(S, n - 1)
         IN  T \cup {Append(t, x) : t \in {u \in T : Len(u) = n - 1}, x \in S}
\* contents.split("\n") has at least one element; no file is the empty list.
Absent == <<>>
FileContents == SeqsUpTo(LineSet, MaxLines) \ {Absent}

\* Number.parseInt(str, 10): leading blanks are skipped, then the longest
\* run of digits is read.  <<n>> stands for the number n, <<>> for NaN.
NaN == <<>>
RECURSIVE SkipBlanks(_, _)
SkipBlanks(str, i) ==
    IF i <= Len(str) /\ str[i] = " " THEN SkipBlanks(str, i + 1) ELSE i
RECURSIVE ReadDigits(_, _, _)
ReadDigits(str, i, acc) ==
    IF i <= Len(str) /\ str[i] \in Digits
    THEN ReadDigits(str, i + 1, acc * 10 + DigitValue(str[i]))
    ELSE acc
ParseInt(str) ==
    LET i == SkipBlanks(str, 1)
    IN  IF i <= Len(str) /\ str[i] \in Digits THEN <<ReadDigits(str, i, 0)>>
        ELSE NaN

\* lines[i] ?? ""
LineAt(ls, i) == IF i + 1 <= Len(ls) THEN ls[i + 1] ELSE <<>>
\* readRojoLock: none of pid, port and startTime is NaN.
FieldsParse(ls) == \A i \in 0..2 : ParseInt(LineAt(ls, i)) # NaN

LockInit ==
    /\ variant = "tree"
    /\ ProcessManagerInit
    /\ SignalInit
    /\ UtilIdle
    /\ platform \in {"posix", "win32"}
    /\ TreeQuiet
    /\ pidAlive \in BOOLEAN
    /\ portBound \in BOOLEAN
    /\ \E f \in FileContents \cup {Absent} : LockStart(f)

\* cleanupLockfile is entered (by readRojoLock, or called directly).
EnterCleanup ==
    /\ cleanupPc' = "retry"
    /\ attempt' = 0
    /\ delays' = <<>>

readRojoLock ==
    /\ rlPc = "idle"
    /\ cleanupPc = "idle"
    /\ rlPc' = "read"
    /\ UNCHANGED <<lockFile, pidAlive, portBound, lines, returned, passed, cleanupPc,
                   attempt, delays>>

\* readLockfileRaw returns (ok = FALSE: reading failed); the fields are
\* parsed.
ReadLockfileDone(ok) ==
    /\ rlPc = "read"
    /\ IF lockFile = Absent \/ ~ok
       THEN /\ rlPc' = "done" /\ returned' = "null" /\ lines' = lines
            /\ UNCHANGED <<cleanupPc, attempt, delays>>
       ELSE /\ lines' = lockFile
            /\ returned' = returned
            /\ IF FieldsParse(lockFile)
               THEN rlPc' = "alive" /\ UNCHANGED <<cleanupPc, attempt, delays>>
               ELSE rlPc' = "cleanup" /\ EnterCleanup
    /\ UNCHANGED <<lockFile, pidAlive, portBound, passed>>

\* The liveness query exits with status 0: `ps -p PID` does when the process
\* exists, `tasklist /FI "PID eq PID"` whether or not a task matches.
QuerySucceeds == IF platform = "posix" THEN pidAlive ELSE TRUE

\* isProcessAlive returns (ok = FALSE: the query could not be run).
IsProcessAliveDone(ok) ==
    /\ rlPc = "alive"
    /\ IF ok /\ QuerySucceeds
       THEN /\ rlPc' = "port" /\ passed' = passed \cup {"alive"}
            /\ UNCHANGED <<cleanupPc, attempt, delays>>
       ELSE /\ rlPc' = "cleanup" /\ passed' = passed /\ EnterCleanup
    /\ UNCHANGED <<lockFile, pidAlive, portBound, lines, returned>>

\* isPortAvailable: server.listen succeeds.
PortAvailable == ~portBound

IsPortAvailableDone ==
    /\ rlPc = "port"
    /\ IF PortAvailable
       THEN /\ rlPc' = "cleanup" /\ EnterCleanup
            /\ UNCHANGED <<passed, returned>>
       ELSE /\ rlPc' = "done" /\ returned' = "record"
            /\ passed' = passed \cup {"port"}
            /\ UNCHANGED <<cleanupPc, attempt, delays>>
    /\ UNCHANGED <<lockFile, pidAlive, portBound, lines>>

\* cleanupLockfile called on its own (cleanupRojoLock).
cleanupLockfile ==
    /\ rlPc = "idle"
    /\ cleanupPc = "idle"
    /\ EnterCleanup
    /\ UNCHANGED <<lockFile, pidAlive, portBound, rlPc, lines, returned, passed>>

\* What deleting the file can do.
RmOutcomes == IF lockFile = Absent THEN {"ENOENT"} ELSE {"ok", "EBUSY", "EPERM"}

DelayFlat(a) == BASE_RETRY_DELAY_MS
\* delayMs = BASE_RETRY_DELAY_MS * 2 ** attempt
DelayMs(a) == BASE_RETRY_DELAY_MS * 2 ^ a

IsLastAttempt(a) == a = MAX_LOCKFILE_CLEANUP_RETRIES - 1

\* One turn of the loop of cleanupLockfile: a deletion attempt, and the
\* wait that follows a busy file.
RemoveAttempt(outcome) ==
    /\ cleanupPc = "retry"
    /\ outcome \in RmOutcomes
    /\ lockFile' = IF outcome = "ok" THEN Absent ELSE lockFile
    /\ LET retry == outcome = "EBUSY" /\ ~IsLastAttempt(attempt)
           how == CASE outcome = "ok" -> "removed"
                    [] outcome = "ENOENT" -> "gone"
                    [] retry /\ attempt + 1 < MAX_LOCKFILE_CLEANUP_RETRIES -> "retry"
                    [] retry -> "silent"
                    [] OTHER -> "warned"
       IN  /\ cleanupPc' = how
           /\ attempt' = IF retry THEN attempt + 1 ELSE attempt
           /\ delays' = IF retry THEN Append(delays, DelayMs(attempt)) ELSE delays
           /\ IF how # "retry" /\ rlPc = "cleanup"
              THEN rlPc' = "done" /\ returned' = "null"
              ELSE UNCHANGED <<rlPc, returned>>
    /\ UNCHANGED <<pidAlive, portBound, lines, passed>>

LockNext ==
    \/ readRojoLock /\ UNCHANGED <<pmVars, sigVars, treeVars, utilVars>>
    \/ \E ok \in BOOLEAN :
          ReadLockfileDone(ok) /\ UNCHANGED <<pmVars, sigVars, treeVars, utilVars>>
    \/ \E ok \in BOOLEAN :
          IsProcessAliveDone(ok) /\ UNCHANGED <<pmVars, sigVars, treeVars, utilVars>>
    \/ IsPortAvailableDone /\ UNCHANGED <<pmVars, sigVars, treeVars, utilVars>>
    \/ cleanupLockfile /\ UNCHANGED <<pmVars, sigVars, treeVars, utilVars>>
    \/ \E outcome \in {"ok", "ENOENT", "EBUSY", "EPERM"} :
          RemoveAttempt(outcome) /\ UNCHANGED <<pmVars, sigVars, treeVars, utilVars>>

LockSpec == LockInit /\ [][LockNext]_vars

(***************************************************************************)
(* The shared multi-owner lock file (src/unnamed/part_027): one PID per    *)
(* line.  Calls are made one after another; every await of a call is a     *)
(* step.                                                                   *)
(***************************************************************************)

\* String(n) in base 10, as a sequence of characters.
RECURSIVE StrOf(_)
StrOf(n) ==
    LET d == <<<<"0", "1", "2", "3", "4", "5", "6", "7", "8", "9">>[(n % 10) + 1]>>
    IN  IF n < 10 THEN d ELSE StrOf(n \div 10) \o d

\* readLockfilePids: [] when there is no file; else every line parsed, the
\* lines that are not a positive number dropped.
readLockfilePids(f) ==
    IF ~f.exists THEN <<>>
    ELSE LET nums == [i \in 1..Len(f.lines) |-> ParseInt(f.lines[i])]
             IsPid(x) == x # NaN /\ x[1] > 0
             kept == SelectSeq(nums, IsPid)
         IN  [i \in 1..Len(kept) |-> kept[i][1]]

\* `${pids.join("\n")}\n` as the file's lines.
Content(pids) == [i \in 1..Len(pids) |-> StrOf(pids[i])]

\* No call is in progress.
SharedRest == shPc \in {"idle", "returned", "threw"}

SharedInit ==
    /\ variant = "hooks"
    /\ ProcessManagerInit
    /\ SignalInit
    /\ TreeIdle
    /\ LockIdle
    /\ CmdIdle
    /\ SharedIdle
    /\ PortIdle
    /\ WatchIdle

addPidToLockfile(pid) ==
    /\ SharedRest
    /\ shPc' = "read"
    /\ shOp' = "add"
    /\ shPid' = pid
    /\ existingPids' = <<>>
    /\ shWarned' = FALSE
    /\ UNCHANGED sharedFile

removePidFromLockfile(pid) ==
    /\ SharedRest
    /\ shPc' = "read"
    /\ shOp' = "remove"
    /\ shPid' = pid
    /\ existingPids' = <<>>
    /\ shWarned' = FALSE
    /\ UNCHANGED sharedFile

AlwaysAppends(pids, pid) == FALSE
\* existingPids.includes(pid)
Includes(pids, pid) == pid \in Range(pids)

\* existingPids.filter((existingPid) => existingPid !== pid)
updatedPids(pids, pid) ==
    LET Other(x) == x # pid IN SelectSeq(pids, Other)

\* readLockfilePids settles (ok = FALSE: readFile failed with an error other
\* than ENOENT, which is rethrown); the caller runs up to its next await.
ReadLockfilePidsDone(ok) ==
    /\ shPc = "read"
    /\ IF ~ok
       THEN shPc' = "threw" /\ UNCHANGED existingPids
       ELSE /\ existingPids' = readLockfilePids(sharedFile)
            /\ shPc' = IF shOp = "add"
                       THEN IF Includes(existingPids', shPid) THEN "returned"
                            ELSE "write"
                       ELSE IF Len(updatedPids(existingPids', shPid)) = 0
                            THEN "cleanup" ELSE "write"
    /\ UNCHANGED <<sharedFile, shOp, shPid, shWarned>>

\* fs.writeFile settles.
WriteFileDone(ok) ==
    /\ shPc = "write"
    /\ IF ok
       THEN /\ sharedFile' =
                 [exists |-> TRUE,
                  lines |-> Content(IF shOp = "add"
                                    THEN Append(existingPids, shPid)
                                    ELSE updatedPids(existingPids, shPid))]
            /\ shPc' = "returned"
       ELSE shPc' = "threw" /\ UNCHANGED sharedFile
    /\ UNCHANGED <<shOp, shPid, existingPids, shWarned>>

\* cleanupLockfile of part_027 returns: some fs.rm succeeded (removed), or
\* it logged the manual-deletion warning (ENOENT, EBUSY on every attempt, or
\* any other error).
SharedCleanupDone(removed) ==
    /\ shPc = "cleanup"
    /\ removed => sharedFile.exists
    /\ sharedFile' = IF removed THEN [exists |-> FALSE, lines |-> <<>>]
                     ELSE sharedFile
    /\ shWarned' = ~removed
    /\ shPc' = "returned"
    /\ UNCHANGED <<shOp, shPid, existingPids>>

SharedNext ==
    \/ \E pid \in Pids :
          addPidToLockfile(pid) /\ UNCHANGED <<peer, duel, sync, pmVars, sigVars, treeVars, lockVars, portVars, watchVars, cmdVars>>
    \/ \E pid \in Pids :
          removePidFromLockfile(pid)
              /\ UNCHANGED <<peer, duel, sync, pmVars, sigVars, treeVars, lockVars, portVars, watchVars, cmdVars>>
    \/ \E ok \in BOOLEAN :
          ReadLockfilePidsDone(ok) /\ UNCHANGED <<peer, duel, sync, pmVars, sigVars, treeVars, lockVars, portVars, watchVars, cmdVars>>
    \/ \E ok \in BOOLEAN :
          WriteFileDone(ok) /\ UNCHANGED <<peer, duel, sync, pmVars, sigVars, treeVars, lockVars, portVars, watchVars, cmdVars>>
    \/ \E removed \in BOOLEAN :
          SharedCleanupDone(removed)
              /\ UNCHANGED <<peer, duel, sync, pmVars, sigVars, treeVars, lockVars, portVars, watchVars, cmdVars>>

SharedSpec == SharedInit /\ [][SharedNext]_vars

(***************************************************************************)
(* Two CLI processes working on the shared lock file at the same time: the *)
(* first calls addPidToLockfile with its own PID, the second (peer) adds   *)
(* its own PID or removes the PID of a process that has ended.  Each await *)
(* of one process is a point where the other may run.                      *)
(***************************************************************************)

\* The PIDs of the two CLI processes, and of one that ended earlier.
OwnPid == Min(Pids)
PeerPid == OwnPid + 1
EndedPid == PeerPid + 1

raceFrame == <<duel, sync, pmVars, sigVars, treeVars, lockVars, portVars, watchVars, cmdVars>>

RaceInit ==
    /\ variant = "hooks"
    /\ ProcessManagerInit
    /\ SignalInit
    /\ TreeIdle
    /\ LockIdle
    /\ CmdIdle
    /\ PortIdle
    /\ WatchIdle
    /\ \E pids \in {<<>>, <<EndedPid>>, <<EndedPid, NumPids>>} :
          sharedFile = [exists |-> pids # <<>>, lines |-> Content(pids)]
    /\ shPc = "idle"
    /\ shOp = "none"
    /\ shPid = 0
    /\ existingPids = <<>>
    /\ shWarned = FALSE
    /\ peer = PeerIdle
    /\ duel = DuelIdle
    /\ sync = SyncIdle

\* The first process calls addPidToLockfile(process.pid), once.
OwnAdd ==
    /\ shPc = "idle"
    /\ addPidToLockfile(OwnPid)
    /\ UNCHANGED peer

\* The peer calls addPidToLockfile or removePidFromLockfile, once.
PeerCalls(op, pid) ==
    /\ peer.pc = "idle"
    /\ peer' = [pc |-> "read", op |-> op, pid |-> pid, existingPids |-> <<>>]
    /\ UNCHANGED <<sharedFile, shPc, shOp, shPid, existingPids, shWarned>>

\* The peer's readLockfilePids settles; it runs up to its next await.
PeerReadDone(ok) ==
    /\ peer.pc = "read"
    /\ LET pids == readLockfilePids(sharedFile)
           next == IF ~ok THEN "threw"
                   ELSE IF peer.op = "add"
                   THEN (IF Includes(pids, peer.pid) THEN "returned" ELSE "write")
                   ELSE (IF Len(updatedPids(pids, peer.pid)) = 0
                         THEN "cleanup" ELSE "write")
       IN  peer' = [peer EXCEPT !.pc = next,
                                !.existingPids = IF ok THEN pids ELSE @]
    /\ UNCHANGED <<sharedFile, shPc, shOp, shPid, existingPids, shWarned>>

\* The peer's fs.writeFile settles.
PeerWriteDone(ok) ==
    /\ peer.pc = "write"
    /\ sharedFile' =
          IF ok
          THEN [exists |-> TRUE,
                lines |-> Content(IF peer.op = "add"
                                  THEN Append(peer.existingPids, peer.pid)
                                  ELSE updatedPids(peer.existingPids, peer.pid))]
          ELSE sharedFile
    /\ peer' = [peer EXCEPT !.pc = IF ok THEN "returned" ELSE "threw"]
    /\ UNCHANGED <<shPc, shOp, shPid, existingPids, shWarned>>

\* The peer's cleanupLockfile returns.
PeerCleanupDone(removed) ==
    /\ peer.pc = "cleanup"
    /\ removed => sharedFile.exists
    /\ sharedFile' = IF removed THEN [exists |-> FALSE, lines |-> <<>>]
                     ELSE sharedFile
    /\ peer' = [peer EXCEPT !.pc = "returned"]
    /\ UNCHANGED <<shPc, shOp, shPid, existingPids, shWarned>>

RaceNext ==
    \/ OwnAdd /\ UNCHANGED raceFrame
    \/ \E ok \in BOOLEAN :
          ReadLockfilePidsDone(ok) /\ UNCHANGED <<peer, raceFrame>>
    \/ \E ok \in BOOLEAN :
          WriteFileDone(ok) /\ UNCHANGED <<peer, raceFrame>>
    \/ PeerCalls("add", PeerPid) /\ UNCHANGED raceFrame
    \/ PeerCalls("remove", EndedPid) /\ UNCHANGED raceFrame
    \/ \E ok \in BOOLEAN : PeerReadDone(ok) /\ UNCHANGED raceFrame
    \/ \E ok \in BOOLEAN : PeerWriteDone(ok) /\ UNCHANGED raceFrame
    \/ \E removed \in BOOLEAN : PeerCleanupDone(removed) /\ UNCHANGED raceFrame

RaceSpec == RaceInit /\ [][RaceNext]_vars

(***************************************************************************)
(* findAvailablePort (src/src/utils/studio-process-finder.ts:173-184).     *)
(* The ports in use do not change during a call.                           *)
(***************************************************************************)

ROJO_DEFAULT_PORT == 34872
ROJO_MAX_PORT_ATTEMPTS == 10

\* The start ports tried: the default, and the one after it.
StartPorts == {ROJO_DEFAULT_PORT, ROJO_DEFAULT_PORT + 1}
\* Every port a call may probe.
PortWindow == ROJO_DEFAULT_PORT..(ROJO_DEFAULT_PORT + ROJO_MAX_PORT_ATTEMPTS)

PortInit ==
    /\ variant = "tree"
    /\ ProcessManagerInit
    /\ SignalInit
    /\ TreeIdle
    /\ LockIdle
    /\ CmdIdle
    /\ SharedIdle
    /\ WatchIdle
    /\ boundPorts \in SUBSET PortWindow
    /\ \E start \in StartPorts : PortStart(start)

\* isPortAvailable(port): server.listen(port) reaches "listening".
isPortAvailable(port) == port \notin boundPorts

findAvailablePort ==
    /\ fpPc = "idle"
    /\ fpPc' = "probing"
    /\ UNCHANGED <<boundPorts, startPort, index, probed, foundPort, triedRange>>

ProbeSkipsStart(start, i) == start + i + 1
\* const port = startPort + index
ProbePort(start, i) == start + i

\* const endPort = startPort + ROJO_MAX_PORT_ATTEMPTS - 1
EndPort(start) == start + ROJO_MAX_PORT_ATTEMPTS - 1

\* One iteration of the loop: isPortAvailable(port) resolves; the call
\* returns the port, goes on to the next one, or throws after the last.
ProbeDone ==
    /\ fpPc = "probing"
    /\ LET port == ProbePort(startPort, index)
       IN  /\ probed' = Append(probed, port)
           /\ IF isPortAvailable(port)
              THEN /\ fpPc' = "returned"
                   /\ foundPort' = port
                   /\ UNCHANGED <<index, triedRange>>
              ELSE /\ index' = index + 1
                   /\ foundPort' = foundPort
                   /\ IF index' < ROJO_MAX_PORT_ATTEMPTS
                      THEN fpPc' = "probing" /\ UNCHANGED triedRange
                      ELSE /\ fpPc' = "threw"
                           /\ triedRange' = <<startPort, EndPort(startPort)>>
    /\ UNCHANGED <<boundPorts, startPort>>

PortNext ==
    \/ findAvailablePort /\ UNCHANGED <<pmVars, sigVars, treeVars, lockVars, sharedVars, watchVars, cmdVars>>
    \/ ProbeDone /\ UNCHANGED <<pmVars, sigVars, treeVars, lockVars, sharedVars, watchVars, cmdVars>>

PortSpec == PortInit /\ [][PortNext]_vars

(***************************************************************************)
(* watchStudioLockFile (src/src/utils/studio-lock-watcher.ts).  Studio     *)
(* creates and removes the lock file; the watcher, while open, emits an     *)
(* event for each change; signals may arrive at any moment.  A step is what *)
(* runs between two awaits.                                                 *)
(***************************************************************************)

WatchInit ==
    /\ variant = "tree"
    /\ ProcessManagerInit
    /\ SignalInit
    /\ TreeIdle
    /\ LockIdle
    /\ CmdIdle
    /\ SharedIdle
    /\ PortIdle
    /\ studioLock \in BOOLEAN
    /\ hasOnStudioOpen \in BOOLEAN
    /\ watchRevision \in WatchRevisions
    /\ WatchStart

\* resolve() and reject(): the first settlement of the promise stands.
Settle(how) == IF wPromise = "pending" THEN how ELSE wPromise

\* Studio creates or removes the lock file; an open watcher will emit the
\* matching event.
StudioToggles ==
    /\ changes < MaxChanges
    /\ changes' = changes + 1
    /\ studioLock' = ~studioLock
    /\ fsEvents' = IF watcher = "open"
                   THEN Append(fsEvents, IF studioLock THEN "unlink" ELSE "add")
                   ELSE fsEvents
    /\ UNCHANGED <<hasOnStudioOpen, wPc, wPromise, watcher, closeRequested, unlinkPc,
                   shutdownPc, openCalls, closeCalls, closeCompleted, watchRevision>>

\* The promise executor: chokidar.watch, the signal handlers and
\* setupWatcherEvents.
InstallWatcher ==
    /\ wPc' = "watching"
    /\ watcher' = "open"
    /\ shutdownPc' = [sig \in WatchSignals |-> "armed"]

\* The revision awaits checkFileExists before it creates the watcher.
ChecksFileFirst == watchRevision = "access"

watchStudioLockFile ==
    /\ wPc = "idle"
    /\ wPromise' = "pending"
    /\ IF ChecksFileFirst
       THEN wPc' = "access" /\ UNCHANGED <<watcher, shutdownPc>>
       ELSE InstallWatcher
    /\ UNCHANGED <<studioLock, changes, hasOnStudioOpen, closeRequested,
                   fsEvents, unlinkPc, openCalls, closeCalls,
                   closeCompleted, watchRevision>>

\* checkFileExists settles.
CheckFileExistsDone ==
    /\ wPc = "access"
    /\ IF studioLock /\ hasOnStudioOpen
       THEN /\ wPc' = "onOpen"
            /\ openCalls' = openCalls + 1
            /\ UNCHANGED <<watcher, shutdownPc>>
       ELSE InstallWatcher /\ UNCHANGED openCalls
    /\ UNCHANGED <<studioLock, changes, hasOnStudioOpen, wPromise, closeRequested,
                   fsEvents, unlinkPc, closeCalls, closeCompleted, watchRevision>>

\* The onStudioOpen awaited before the watcher exists settles.
InitialOpenDone(ok) ==
    /\ wPc = "onOpen"
    /\ IF ok
       THEN InstallWatcher /\ UNCHANGED wPromise
       ELSE /\ wPc' = "threw"
            /\ wPromise' = "rejected"
            /\ UNCHANGED <<watcher, shutdownPc>>
    /\ UNCHANGED <<studioLock, changes, hasOnStudioOpen, closeRequested, fsEvents,
                   unlinkPc, openCalls, closeCalls, closeCompleted, watchRevision>>

\* The watcher emits its oldest event (a closed or closing watcher emits
\* nothing more).  "add": onStudioOpen is invoked, nothing waits for it.
\* "unlink": the handler invokes onStudioClose and awaits it.
EmitEvent ==
    /\ wPc # "exited"
    /\ fsEvents # <<>>
    /\ fsEvents' = Tail(fsEvents)
    /\ IF watcher # "open"
       THEN UNCHANGED <<unlinkPc, openCalls, closeCalls>>
       ELSE IF Head(fsEvents) = "add"
       THEN /\ openCalls' = IF hasOnStudioOpen THEN openCalls + 1 ELSE openCalls
            /\ UNCHANGED <<unlinkPc, closeCalls>>
       ELSE /\ closeCalls' = closeCalls + 1
            /\ unlinkPc' = [unlinkPc EXCEPT ![closeCalls + 1] = "onStudioClose"]
            /\ UNCHANGED openCalls
    /\ UNCHANGED <<studioLock, changes, hasOnStudioOpen, wPc, wPromise, watcher,
                   closeRequested, shutdownPc, closeCompleted, watchRevision>>

\* cleanup(): `if (isShuttingDown) return`
CleanupReturnsEarly == closeRequested

\* onStudioClose settles for the handler of the i-th "unlink".  When it
\* resolved, the handler calls cleanup(): the first call of cleanup closes
\* the watcher and is awaited; a later one returns at once and the handler
\* goes on to resolve().
OnStudioCloseDone(i, ok) ==
    /\ wPc # "exited"
    /\ unlinkPc[i] = "onStudioClose"
    /\ IF ~ok
       THEN /\ unlinkPc' = [unlinkPc EXCEPT ![i] = "failed"]
            /\ UNCHANGED <<wPromise, watcher, closeRequested, closeCompleted>>
       ELSE /\ closeCompleted' = closeCompleted + 1
            /\ IF CleanupReturnsEarly
               THEN /\ unlinkPc' = [unlinkPc EXCEPT ![i] = "done"]
                    /\ wPromise' = Settle("resolved")
                    /\ UNCHANGED <<watcher, closeRequested>>
               ELSE /\ unlinkPc' = [unlinkPc EXCEPT ![i] = "cleanup"]
                    /\ closeRequested' = TRUE
                    /\ watcher' = "closing"
                    /\ UNCHANGED wPromise
    /\ UNCHANGED <<studioLock, changes, hasOnStudioOpen, wPc, fsEvents, shutdownPc,
                   openCalls, closeCalls, watchRevision>>

\* What the signal handler does once its cleanup() has settled:
\* reject(new Error("Shutdown")) in "access", process.exit(0) in "plain".
ShutdownRejects == watchRevision = "access"

\* SIGTERM or SIGINT while the handlers are installed: the handler calls
\* cleanup() and goes on once it settled.
ShutdownHandler(sig) ==
    /\ wPc # "exited"
    /\ shutdownPc[sig] = "armed"
    /\ IF CleanupReturnsEarly
       THEN /\ shutdownPc' = [shutdownPc EXCEPT ![sig] = "done"]
            /\ IF ShutdownRejects
               THEN wPromise' = Settle("rejected") /\ UNCHANGED wPc
               ELSE wPc' = "exited" /\ UNCHANGED wPromise
            /\ UNCHANGED <<watcher, closeRequested>>
       ELSE /\ shutdownPc' = [shutdownPc EXCEPT ![sig] = "cleanup"]
            /\ closeRequested' = TRUE
            /\ watcher' = "closing"
            /\ UNCHANGED <<wPromise, wPc>>
    /\ UNCHANGED <<studioLock, changes, hasOnStudioOpen, fsEvents, unlinkPc,
                   openCalls, closeCalls, closeCompleted, watchRevision>>

\* watcher.close() settles (a rejection is logged and ignored); the one
\* caller that awaits it goes on: an unlink handler resolves, a shutdown
\* handler rejects or ends the process.
WatcherCloseDone(ok) ==
    /\ wPc # "exited"
    /\ watcher = "closing"
    /\ watcher' = IF ok THEN "closed" ELSE "closeFailed"
    /\ unlinkPc' = [i \in 1..MaxUnlinks |->
                       IF unlinkPc[i] = "cleanup" THEN "done" ELSE unlinkPc[i]]
    /\ shutdownPc' = [sig \in WatchSignals |->
                         IF shutdownPc[sig] = "cleanup" THEN "done"
                         ELSE shutdownPc[sig]]
    /\ IF \E i \in 1..MaxUnlinks : unlinkPc[i] = "cleanup"
       THEN wPromise' = Settle("resolved") /\ UNCHANGED wPc
       ELSE IF ShutdownRejects
       THEN wPromise' = Settle("rejected") /\ UNCHANGED wPc
       ELSE wPc' = "exited" /\ UNCHANGED wPromise
    /\ UNCHANGED <<studioLock, changes, hasOnStudioOpen, closeRequested,
                   fsEvents, openCalls, closeCalls, closeCompleted, watchRevision>>

WatchNext ==
    \/ StudioToggles
          /\ UNCHANGED <<pmVars, sigVars, treeVars, lockVars, sharedVars, portVars, cmdVars>>
    \/ watchStudioLockFile
          /\ UNCHANGED <<pmVars, sigVars, treeVars, lockVars, sharedVars, portVars, cmdVars>>
    \/ CheckFileExistsDone
          /\ UNCHANGED <<pmVars, sigVars, treeVars, lockVars, sharedVars, portVars, cmdVars>>
    \/ \E ok \in BOOLEAN :
          InitialOpenDone(ok)
              /\ UNCHANGED <<pmVars, sigVars, treeVars, lockVars, sharedVars, portVars, cmdVars>>
    \/ EmitEvent
          /\ UNCHANGED <<pmVars, sigVars, treeVars, lockVars, sharedVars, portVars, cmdVars>>
    \/ \E i \in 1..MaxUnlinks, ok \in BOOLEAN :
          OnStudioCloseDone(i, ok)
              /\ UNCHANGED <<pmVars, sigVars, treeVars, lockVars, sharedVars, portVars, cmdVars>>
    \/ \E sig \in WatchSignals :
          ShutdownHandler(sig)
              /\ UNCHANGED <<pmVars, sigVars, treeVars, lockVars, sharedVars, portVars, cmdVars>>
    \/ \E ok \in BOOLEAN :
          WatcherCloseDone(ok)
              /\ UNCHANGED <<pmVars, sigVars, treeVars, lockVars, sharedVars, portVars, cmdVars>>

WatchSpec == WatchInit /\ [][WatchNext]_vars

(***************************************************************************)
(* The watch command (src/src/commands/watch.ts:1-254) over the "hooks"    *)
(* revision of the ProcessManager: it starts the Rojo server and the       *)
(* compiler, adds its own PID to the shared lock file, registers a cleanup *)
(* hook that removes the PID again, and waits for either subprocess to     *)
(* end.  A step is what runs between two awaits.                            *)
(***************************************************************************)


\* The handles of the two subprocesses, in the order of Promise.race, and
\* the command's cleanup hook.
rojoHandle == Min(Procs)
watchHandle == Max(Procs)
cleanupHook == Min(Hooks)

\* How a subprocess ends: exit code 0, another exit code, or a signal (of
\* the signals, one that counts as a graceful shutdown and one that does not).
ExitKinds == {"zero", "nonzero", "SIGTERM", "SIGKILL"}
Settled(p) == exitKind[p] \in ExitKinds

\* isGracefulShutdown: an ExecaError whose signal is SIGTERM or SIGINT.
isGracefulShutdown(k) == k \in {"SIGTERM", "SIGINT"}

\* What a command may catch: any value; whether it is an Error, whether it
\* has a `signal` property, and the value of that property.
SignalValues == {"undefined", "SIGTERM", "SIGINT", "SIGKILL"}
Errs == {err \in [isError : BOOLEAN, hasSignal : BOOLEAN, signal : SignalValues] :
            ~err.hasSignal => err.signal = "undefined"}
\* The ExecaError of a subprocess that ended in the way k.
ExecaErrorOf(k) ==
    [isError |-> TRUE, hasSignal |-> TRUE,
     signal |-> IF k \in SignalValues THEN k ELSE "undefined"]

\* isSignalError: err instanceof Error && "signal" in err
AnythingIsSignalError(err) == TRUE
isSignalError(err) == err.isError /\ err.hasSignal

\* isGracefulShutdown(err), with processManager.shuttingDown as `down`.
GracefulShutdown(down, err) ==
    IF down THEN TRUE
    ELSE IF ~isSignalError(err) THEN FALSE
    ELSE isGracefulShutdown(err.signal)

\* Neither the command nor a handler of the wiring has called process.exit.
CmdAlive == Running /\ cmdExit = "none"

\* The exit code of the CLI process: the command's own process.exit, or
\* that of the wiring's handler (0 for a signal, 1 for a fault).
ExitStatus ==
    IF cmdExit # "none" THEN cmdExit
    ELSE IF exited = "none" THEN "none"
    ELSE IF exited \in Signals THEN "zero" ELSE "nonzero"

cmdFrame == <<treeVars, lockVars, sharedVars, portVars, watchVars, command,
              studioCmdVars, launchVars, runVars, stopVars>>

WatchCmdInit ==
    /\ variant = "hooks"
    /\ ProcessManagerInit
    /\ SignalInit
    /\ TreeIdle
    /\ LockIdle
    /\ SharedIdle
    /\ PortIdle
    /\ WatchIdle
    /\ command = "watch"
    /\ CmdRest

\* startProcess for the next handle: the subprocess is spawned and
\* registered with the manager.
startProcess(p) ==
    /\ CmdAlive
    /\ signalHandlersSetup
    /\ cmdPc \in {"idle", "spawn"}
    /\ exitKind[p] = "unborn"
    /\ p = Min({q \in Procs : exitKind[q] = "unborn"})
    /\ register(p)
    /\ exitKind' = [exitKind EXCEPT ![p] = "running"]
    /\ cmdPc' = IF p = watchHandle THEN "addPid" ELSE "spawn"
    /\ UNCHANGED <<cmdExit, winner, faultPending, removalsDone, unhookedEarly>>
    /\ UNCHANGED <<sigVars, cmdFrame>>

\* Promise.race over promises of which some have settled already is settled
\* by the first of them in the order of the array.
FirstSettled ==
    IF Settled(rojoHandle) THEN rojoHandle
    ELSE IF Settled(watchHandle) THEN watchHandle ELSE 0

\* `await addPidToLockfile(process.pid)` settles; the hook is registered
\* and the race on the two subprocess promises begins.
AddPidDone(ok) ==
    /\ CmdAlive
    /\ cmdPc = "addPid"
    /\ IF ok
       THEN /\ IF HooksLive /\ ~Has(cleanupHooks, cleanupHook)
                            /\ hookCalls[cleanupHook] = 0
               THEN registerCleanupHook(cleanupHook)
               ELSE UNCHANGED pmVars
            /\ cmdPc' = "race"
            /\ winner' = FirstSettled
       ELSE /\ cmdPc' = "threw"
            /\ UNCHANGED <<pmVars, winner>>
    /\ UNCHANGED <<cmdExit, exitKind, faultPending, removalsDone, unhookedEarly>>
    /\ UNCHANGED <<sigVars, cmdFrame>>

\* A subprocess ends in the way k.  Its promise settles; when it rejects,
\* the promise `subprocess.finally(...)` of runWithTaskLog rejects with
\* nobody handling it.
SubprocessExit(p, k) ==
    /\ CmdAlive
    /\ exitKind[p] = "running"
    /\ ProcExit(p)
    /\ exitKind' = [exitKind EXCEPT ![p] = k]
    /\ winner' = IF cmdPc = "race" /\ winner = 0 THEN p ELSE winner
    /\ faultPending' = (faultPending \/ k # "zero")
    /\ UNCHANGED <<cmdPc, cmdExit, removalsDone, unhookedEarly>>
    /\ UNCHANGED <<sigVars, cmdFrame>>

\* processManager.unregisterCleanupHook(cleanupHook) as the command calls it.
Unhook ==
    IF HooksLive /\ Has(cleanupHooks, cleanupHook)
    THEN /\ unregisterCleanupHook(cleanupHook)
         /\ unhookedEarly' = ~HasCleanupPromise
    ELSE UNCHANGED <<pmVars, unhookedEarly>>

\* The continuation of `await Promise.race([...])`: the try block when the
\* winner resolved, the catch block and handleProcessExit when it rejected.
RaceSettled ==
    /\ CmdAlive
    /\ cmdPc = "race"
    /\ winner # 0
    /\ IF isGracefulShutdown(exitKind[winner])
       THEN /\ cmdPc' = "returned"
            /\ UNCHANGED <<pmVars, unhookedEarly>>
       ELSE /\ cmdPc' = IF exitKind[winner] = "zero" THEN "removePid"
                                                     ELSE "removePidCaught"
            /\ Unhook
    /\ UNCHANGED <<cmdExit, exitKind, winner, faultPending, removalsDone>>
    /\ UNCHANGED <<sigVars, cmdFrame>>

\* `await removePidFromLockfile(process.pid)` of the command settles and
\* process.exit(1) follows.  A rejection inside the try block is caught and
\* handleProcessExit removes the PID once more.
RemovePidDone(ok) ==
    /\ CmdAlive
    /\ cmdPc \in {"removePid", "removePidCaught"}
    /\ removalsDone' = IF ok THEN removalsDone + 1 ELSE removalsDone
    /\ cmdExit' = IF ok THEN "nonzero" ELSE cmdExit
    /\ cmdPc' = IF ok THEN "exited"
                ELSE IF cmdPc = "removePid" THEN "removePidCaught" ELSE "threw"
    /\ UNCHANGED <<exitKind, winner, faultPending, unhookedEarly>>
    /\ UNCHANGED <<pmVars, sigVars, cmdFrame>>

\* The command's hook, awaited by performCleanup, settles: it has removed
\* the PID, or removePidFromLockfile has thrown.
CleanupHookSettle(h, result, o) ==
    /\ CmdAlive
    /\ HookSettle(h, result, o)
    /\ removalsDone' = IF result = "ok" THEN removalsDone + 1 ELSE removalsDone
    /\ UNCHANGED <<cmdPc, cmdExit, exitKind, winner, faultPending, unhookedEarly>>
    /\ UNCHANGED <<sigVars, cmdFrame>>

\* The events of `process` that can occur: the user's interrupt at any
\* moment, and unhandledRejection once a promise has rejected unhandled.
PendingEvents == {"SIGINT"} \cup (IF faultPending THEN {"unhandledRejection"} ELSE {})

WatchCmdNext ==
    \/ cmdPc = "idle" /\ ~signalHandlersSetup /\ setupSignalHandlers
    \/ \E p \in Procs : startProcess(p)
    \/ \E ok \in BOOLEAN : AddPidDone(ok)
    \/ \E p \in Procs, k \in ExitKinds : SubprocessExit(p, k)
    \/ RaceSettled
    \/ \E ok \in BOOLEAN : RemovePidDone(ok)
    \/ \E h \in Hooks, r \in {"ok", "throw"}, o \in KillFns :
          CleanupHookSettle(h, r, o)
    \/ \E e \in PendingEvents, c \in Callers, o \in KillFns :
          cmdExit = "none" /\ Handler(e, c, o)
    \/ \E c \in Callers : cmdExit = "none" /\ HandlerResume(c)
    \/ \E p \in Procs, o \in KillChoices :
          CmdAlive /\ GracefulTimeout(p, o) /\ UNCHANGED <<sigVars, restVars>>
    \/ \E o \in KillFns :
          CmdAlive /\ OverallTimeout(o) /\ UNCHANGED <<sigVars, restVars>>

WatchCmdSpec == WatchCmdInit /\ [][WatchCmdNext]_vars

(***************************************************************************)
(* The open command's startWatchOnStudioClose (src/src/commands/open.ts)   *)
(* and the start command's workflow (src/unnamed/part_007), over the "bun" *)
(* revision of the ProcessManager and the "access" revision of the         *)
(* watcher.  Both run scripts as tracked subprocesses and watch the Studio *)
(* lock file; their onStudioClose calls processManager.cleanup().          *)
(***************************************************************************)

StudioCommands == {"open", "start"}
\* open runs the watch script; start runs the open and the watch scripts.
Scripts == IF command = "open" THEN {Min(Procs)} ELSE Procs

studioFrame == <<sigVars, treeVars, lockVars, sharedVars, portVars, command,
                 watchCmdVars, launchVars, runVars, stopVars>>

StudioCmdInit ==
    /\ variant = "bun"
    /\ ProcessManagerInit
    /\ SignalInit
    /\ TreeIdle
    /\ LockIdle
    /\ SharedIdle
    /\ PortIdle
    /\ studioLock \in BOOLEAN
    /\ hasOnStudioOpen = FALSE
    /\ watchRevision = "access"
    /\ WatchStart
    /\ command \in StudioCommands
    /\ CmdRest

\* processManager.cleanup() called by whoever comes next; the caller takes
\* the first free slot (with none free the call is a memoized one).
FreeCallers == {c \in Callers : callerPromise[c] = 0}
callCleanup(o) ==
    IF FreeCallers # {} THEN cleanup(Min(FreeCallers), o) ELSE UNCHANGED pmVars

\* Promise.race of the open command after a step that may have settled the
\* watcher's promise.
RaceAfter ==
    IF settledBy = "none" /\ cmdPc = "race" /\ wPromise' \in {"resolved", "rejected"}
    THEN "watcher" ELSE settledBy

\* startWatchOnStudioClose / runWorkflow up to the first await: the scripts
\* are started in the background and watchStudioLockFile is called.
StartWatching ==
    /\ CmdAlive
    /\ signalHandlersSetup
    /\ cmdPc = "idle"
    /\ cmdPc' = IF command = "open" THEN "race" ELSE "workflow"
    /\ watchStudioLockFile
    /\ UNCHANGED <<cmdExit, exitKind, studioCmdVars>>
    /\ UNCHANGED <<pmVars, studioFrame>>

CmdWaiting == cmdPc \in {"race", "workflow", "finalCleanup"}

\* run() of a script spawns its subprocess and registers it.
SpawnScript(p) ==
    /\ CmdAlive
    /\ CmdWaiting
    /\ p \in Scripts
    /\ exitKind[p] = "unborn"
    /\ register(p)
    /\ exitKind' = [exitKind EXCEPT ![p] = "running"]
    /\ UNCHANGED <<cmdPc, cmdExit, studioCmdVars>>
    /\ UNCHANGED <<watchVars, studioFrame>>

\* The subprocess of a script ends; run() resolves on exit code 0 and throws
\* a RunError otherwise.  The open command races on it.
ScriptExit(p, k) ==
    /\ CmdAlive
    /\ exitKind[p] = "running"
    /\ ProcExit(p)
    /\ exitKind' = [exitKind EXCEPT ![p] = k]
    /\ settledBy' = IF command = "open" /\ cmdPc = "race" /\ settledBy = "none"
                    THEN "script" ELSE settledBy
    /\ UNCHANGED <<cmdPc, cmdExit, aborted, closeStep>>
    /\ UNCHANGED <<watchVars, studioFrame>>

\* Studio closes the place: it removes its lock file.  (What the watcher
\* makes of a place that is opened again is the subject of WatchSpec.)
StudioCloses == studioLock /\ StudioToggles

\* Steps of the watcher that involve the command only through its promise.
WatcherStep(A) ==
    /\ CmdAlive
    /\ A
    /\ settledBy' = RaceAfter
    /\ UNCHANGED <<cmdPc, cmdExit, exitKind, aborted, closeStep>>
    /\ UNCHANGED <<pmVars, studioFrame>>

\* The watcher emits an event.  On "unlink" the command's onStudioClose
\* runs up to `await processManager.cleanup()`; the start command aborts
\* its controller first.
UnlinkHandled == watcher = "open" /\ fsEvents # <<>> /\ Head(fsEvents) = "unlink"
StudioEvent(o) ==
    /\ CmdAlive
    /\ EmitEvent
    /\ IF UnlinkHandled
       THEN /\ callCleanup(o)
            /\ closeStep' = [closeStep EXCEPT ![closeCalls + 1] = "cleanup"]
            /\ aborted' = (aborted \/ command = "start")
       ELSE UNCHANGED <<pmVars, closeStep, aborted>>
    /\ UNCHANGED <<cmdPc, cmdExit, exitKind, settledBy>>
    /\ UNCHANGED studioFrame

CleanupNotAwaited == TRUE
\* onStudioClose: `await processManager.cleanup()`.
CleanupAwaited == cleanupPromise \in {"resolved", "rejected"}

\* `await processManager.cleanup()` of onStudioClose settles; cleanupLockfile
\* comes next.  A rejection makes onStudioClose reject.
CloseCleanupSettled(i) ==
    /\ CmdAlive
    /\ closeStep[i] = "cleanup"
    /\ CleanupAwaited
    /\ IF cleanupPromise # "rejected"
       THEN /\ closeStep' = [closeStep EXCEPT ![i] = "lockfile"]
            /\ UNCHANGED watchVars
       ELSE /\ closeStep' = [closeStep EXCEPT ![i] = "failed"]
            /\ OnStudioCloseDone(i, FALSE)
    /\ UNCHANGED <<cmdPc, cmdExit, exitKind, aborted, settledBy>>
    /\ UNCHANGED <<pmVars, studioFrame>>

\* cleanupLockfile (which never throws) returns; the open command aborts
\* its controller, and onStudioClose resolves.
CloseLockfileDone(i) ==
    /\ CmdAlive
    /\ closeStep[i] = "lockfile"
    /\ closeStep' = [closeStep EXCEPT ![i] = "done"]
    /\ aborted' = (aborted \/ command = "open")
    /\ OnStudioCloseDone(i, TRUE)
    /\ settledBy' = RaceAfter
    /\ UNCHANGED <<cmdPc, cmdExit, exitKind>>
    /\ UNCHANGED <<pmVars, studioFrame>>

\* A signal reaches every listener: the wiring's (`void cleanup()`), the
\* start command's (abort) and, while armed, the watcher's.
Interrupt(sig, o) ==
    /\ CmdAlive
    /\ handlers[sig] > 0
    /\ callCleanup(o)
    /\ IF shutdownPc[sig] = "armed" THEN ShutdownHandler(sig)
                                    ELSE UNCHANGED watchVars
    /\ aborted' = (aborted \/ (command = "start" /\ cmdPc # "idle"))
    /\ settledBy' = RaceAfter
    /\ UNCHANGED <<cmdPc, cmdExit, exitKind, closeStep>>
    /\ UNCHANGED studioFrame

\* open: the continuation of `await Promise.race([...])`; the function
\* returns, or throws what the race rejected with.
OpenRaceSettled ==
    /\ CmdAlive
    /\ command = "open"
    /\ cmdPc = "race"
    /\ settledBy # "none"
    /\ cmdPc' = IF settledBy = "watcher"
                THEN (IF wPromise = "resolved" THEN "returned" ELSE "threw")
                ELSE (IF exitKind[Min(Procs)] = "zero" THEN "returned" ELSE "threw")
    /\ UNCHANGED <<cmdExit, exitKind, studioCmdVars>>
    /\ UNCHANGED <<pmVars, watchVars, studioFrame>>

\* start: the continuation of `await studioWatcher` in runWorkflow.  After a
\* resolution cleanup() is awaited once more; a "Shutdown" rejection makes
\* runWorkflow return and action() call process.exit(0).
StartWatcherSettled(o) ==
    /\ CmdAlive
    /\ command = "start"
    /\ cmdPc = "workflow"
    /\ wPromise \in {"resolved", "rejected"}
    /\ IF wPromise = "resolved"
       THEN /\ callCleanup(o)
            /\ cmdPc' = "finalCleanup"
            /\ UNCHANGED cmdExit
       ELSE /\ cmdPc' = "exited"
            /\ cmdExit' = "zero"
            /\ UNCHANGED pmVars
    /\ UNCHANGED <<exitKind, studioCmdVars>>
    /\ UNCHANGED <<watchVars, studioFrame>>

\* start: the final `await processManager.cleanup()` settles; action() calls
\* process.exit(0), or rethrows.
StartCleanupSettled ==
    /\ CmdAlive
    /\ cmdPc = "finalCleanup"
    /\ cleanupPromise \in {"resolved", "rejected"}
    /\ cmdPc' = IF cleanupPromise = "resolved" THEN "exited" ELSE "threw"
    /\ cmdExit' = IF cleanupPromise = "resolved" THEN "zero" ELSE cmdExit
    /\ UNCHANGED <<exitKind, studioCmdVars>>
    /\ UNCHANGED <<pmVars, watchVars, studioFrame>>

StudioCmdNext ==
    \/ cmdPc = "idle" /\ ~signalHandlersSetup /\ setupSignalHandlers
    \/ StartWatching
    \/ \E p \in Procs : SpawnScript(p)
    \/ \E p \in Procs, k \in {"zero", "nonzero"} : ScriptExit(p, k)
    \/ WatcherStep(StudioCloses)
    \/ WatcherStep(CheckFileExistsDone)
    \/ \E ok \in BOOLEAN : WatcherStep(WatcherCloseDone(ok))
    \/ \E o \in KillFns : StudioEvent(o)
    \/ \E i \in 1..MaxUnlinks : CloseCleanupSettled(i)
    \/ \E i \in 1..MaxUnlinks : CloseLockfileDone(i)
    \/ \E o \in KillFns : Interrupt("SIGINT", o)
    \/ OpenRaceSettled
    \/ \E o \in KillFns : StartWatcherSettled(o)
    \/ StartCleanupSettled
    \/ \E p \in Procs, o \in KillChoices :
          CmdAlive /\ GracefulTimeout(p, o) /\ UNCHANGED <<sigVars, restVars>>
    \/ \E o \in KillFns :
          CmdAlive /\ OverallTimeout(o) /\ UNCHANGED <<sigVars, restVars>>
    \/ \E k \in killing, r \in TreeOutcomes :
          CmdAlive /\ KillProcessTreeDone(k, r) /\ UNCHANGED <<sigVars, restVars>>

StudioCmdSpec == StudioCmdInit /\ [][StudioCmdNext]_vars

\* The continuation of an await whose promise has settled does run.
StudioCmdLiveSpec ==
    /\ StudioCmdSpec
    /\ WF_vars(OpenRaceSettled)
    /\ WF_vars(\E o \in KillFns : StartWatcherSettled(o))
    /\ WF_vars(StartCleanupSettled)

(***************************************************************************)
(* The open command's waitForStudioLockOrInterrupt (open.ts:213-256): it   *)
(* installs a one-shot SIGINT listener, then watches for Studio's lock     *)
(* file; onStudioOpen writes the PID into the file and only then sets      *)
(* isLockFileCreated and removes the listener.                              *)
(***************************************************************************)

launchFrame == <<pmVars, sigVars, treeVars, lockVars, sharedVars, portVars,
                 command, cmdExit, exitKind, watchCmdVars, studioCmdVars,
                 runVars, stopVars>>

LaunchInit ==
    /\ variant = "bun"
    /\ ProcessManagerInit
    /\ SignalInit
    /\ TreeIdle
    /\ LockIdle
    /\ SharedIdle
    /\ PortIdle
    /\ studioLock \in BOOLEAN
    /\ hasOnStudioOpen = TRUE
    /\ watchRevision = "access"
    /\ WatchStart
    /\ command = "open"
    /\ CmdRest

\* The promise of waitForStudioLockOrInterrupt: resolve() and reject() act
\* on a pending promise only.
Waiting == cmdPc = "waiting"
SettleWait(how) == IF Waiting THEN how ELSE cmdPc

\* The `.catch` on the watcher's promise: the listener is removed and the
\* wait rejects.
WatcherRejects == wPromise # "rejected" /\ wPromise' = "rejected"

\* The promise executor: process.once("SIGINT", sigintHandler), then
\* watchStudioLockFile.
waitForStudioLockOrInterrupt ==
    /\ cmdPc = "idle"
    /\ cmdPc' = "waiting"
    /\ sigintListener' = TRUE
    /\ watchStudioLockFile
    /\ UNCHANGED <<isLockFileCreated, writesPending, studioKill, sigints>>
    /\ UNCHANGED launchFrame

\* Steps of Studio and of the watcher in which no callback of the command
\* runs.
LaunchWatcherStep(A) ==
    /\ A
    /\ cmdPc' = IF WatcherRejects THEN SettleWait("threw") ELSE cmdPc
    /\ sigintListener' = (sigintListener /\ ~WatcherRejects)
    /\ UNCHANGED <<isLockFileCreated, writesPending, studioKill, sigints>>
    /\ UNCHANGED launchFrame

\* checkFileExists settles; when the file exists, onStudioOpen is invoked
\* and awaits writeStudioLockFile.
LaunchCheckDone ==
    /\ CheckFileExistsDone
    /\ UNCHANGED <<cmdPc, launchVars>>
    /\ UNCHANGED launchFrame

\* writeStudioLockFile (which never throws) returns: the rest of
\* onStudioOpen sets the flag, removes the listener and resolves.
OpenCallbackRest ==
    /\ isLockFileCreated' = TRUE
    /\ sigintListener' = FALSE
    /\ cmdPc' = SettleWait("returned")

\* The onStudioOpen that watchStudioLockFile awaits before it creates the
\* watcher completes.
LaunchInitialOpenDone ==
    /\ InitialOpenDone(TRUE)
    /\ OpenCallbackRest
    /\ UNCHANGED <<writesPending, studioKill, sigints>>
    /\ UNCHANGED launchFrame

\* The watcher emits an event.  "add": onStudioOpen is invoked and awaits
\* writeStudioLockFile.  "unlink": onStudioClose removes the listener and
\* resolves.
AddHandled == watcher = "open" /\ fsEvents # <<>> /\ Head(fsEvents) = "add"
LaunchEvent ==
    /\ EmitEvent
    /\ writesPending' = IF AddHandled THEN writesPending + 1 ELSE writesPending
    /\ sigintListener' = (sigintListener /\ ~UnlinkHandled)
    /\ cmdPc' = IF UnlinkHandled THEN SettleWait("returned") ELSE cmdPc
    /\ UNCHANGED <<isLockFileCreated, studioKill, sigints>>
    /\ UNCHANGED launchFrame

\* writeStudioLockFile of an onStudioOpen invoked by an "add" event returns.
WriteLockDone ==
    /\ writesPending > 0
    /\ writesPending' = writesPending - 1
    /\ OpenCallbackRest
    /\ UNCHANGED <<studioKill, sigints>>
    /\ UNCHANGED <<watchVars, launchFrame>>

\* handleInterruptSignal: with the flag set it resolves; otherwise it calls
\* killProcess(studioPid).
handleInterruptSignal ==
    IF isLockFileCreated
    THEN /\ cmdPc' = SettleWait("returned")
         /\ UNCHANGED studioKill
    ELSE /\ studioKill' = "pending"
         /\ UNCHANGED cmdPc

\* The user presses Ctrl+C: the command's one-shot listener runs if it is
\* installed, then the watcher's if it is armed.
Sigint ==
    /\ sigints < MaxSigints
    /\ sigints' = sigints + 1
    /\ IF sigintListener THEN handleInterruptSignal
                         ELSE UNCHANGED <<cmdPc, studioKill>>
    /\ sigintListener' = FALSE
    /\ IF shutdownPc["SIGINT"] = "armed" THEN ShutdownHandler("SIGINT")
                                         ELSE UNCHANGED watchVars
    /\ UNCHANGED <<isLockFileCreated, writesPending>>
    /\ UNCHANGED launchFrame

\* killProcess settles: after cleanupLockfile the wait resolves; a failed
\* kill rejects it.
StudioKillDone(ok) ==
    /\ studioKill = "pending"
    /\ studioKill' = IF ok THEN "done" ELSE "failed"
    /\ cmdPc' = SettleWait(IF ok THEN "returned" ELSE "threw")
    /\ UNCHANGED <<isLockFileCreated, sigintListener, writesPending, sigints>>
    /\ UNCHANGED <<watchVars, launchFrame>>

LaunchNext ==
    \/ waitForStudioLockOrInterrupt
    \/ LaunchWatcherStep(StudioToggles)
    \/ LaunchCheckDone
    \/ LaunchInitialOpenDone
    \/ LaunchEvent
    \/ WriteLockDone
    \/ \E i \in 1..MaxUnlinks : LaunchWatcherStep(OnStudioCloseDone(i, TRUE))
    \/ \E ok \in BOOLEAN : LaunchWatcherStep(WatcherCloseDone(ok))
    \/ Sigint
    \/ \E ok \in BOOLEAN : StudioKillDone(ok)

LaunchSpec == LaunchInit /\ [][LaunchNext]_vars

(***************************************************************************)
(* run() with a cancellation signal (src/src/utils/run.ts:122-146,         *)
(* 311-391): initializeRun spawns the subprocess, registers it if asked    *)
(* to, and only then calls setupAbortHandler.                              *)
(***************************************************************************)

runFrame == <<sigVars, treeVars, lockVars, sharedVars, portVars, watchVars,
              command, cmdPc, cmdExit, watchCmdVars, launchVars, stopVars>>

RunInit ==
    /\ variant = "bun"
    /\ ProcessManagerInit
    /\ SignalInit
    /\ TreeIdle
    /\ LockIdle
    /\ UtilIdle

\* setupAbortHandler for handle p: without a signal nothing; with an aborted
\* signal subprocess.kill() and `throw new Error("Aborted")`; otherwise the
\* listener is added.
setupAbortHandler(p, hasSignal) ==
    IF ~hasSignal
    THEN /\ runPc' = [runPc EXCEPT ![p] = "awaitExit"]
         /\ UNCHANGED <<abortListener, abortKilled>>
    ELSE IF aborted
    THEN /\ runPc' = [runPc EXCEPT ![p] = "aborted"]
         /\ abortKilled' = abortKilled \cup {p}
         /\ UNCHANGED abortListener
    ELSE /\ runPc' = [runPc EXCEPT ![p] = "awaitExit"]
         /\ abortListener' = abortListener \cup {p}
         /\ UNCHANGED abortKilled

\* run() up to `await subprocess.exited`: initializeRun spawns the
\* subprocess p, registers it when shouldRegisterProcess is set, and calls
\* setupAbortHandler.
run(p, hasSignal, shouldRegisterProcess) ==
    /\ runPc[p] = "idle"
    /\ exitKind' = [exitKind EXCEPT ![p] = "running"]
    /\ IF shouldRegisterProcess THEN register(p) ELSE UNCHANGED pmVars
    /\ setupAbortHandler(p, hasSignal)
    /\ UNCHANGED aborted
    /\ UNCHANGED <<closeStep, settledBy>>
    /\ UNCHANGED runFrame

\* abortController.abort(): every abortHandler still listening calls
\* subprocess.kill().
Abort ==
    /\ ~aborted
    /\ aborted' = TRUE
    /\ abortKilled' = abortKilled \cup abortListener
    /\ UNCHANGED <<runPc, abortListener, exitKind, closeStep, settledBy>>
    /\ UNCHANGED <<pmVars, runFrame>>

\* The subprocess ends: run() resolves on exit code 0 and throws a RunError
\* otherwise; its finally block removes the listener.
RunExit(p, k) ==
    /\ exitKind[p] = "running"
    /\ ProcExit(p)
    /\ exitKind' = [exitKind EXCEPT ![p] = k]
    /\ runPc' = [runPc EXCEPT ![p] =
                    IF @ # "awaitExit" THEN @
                    ELSE IF k = "zero" THEN "resolved" ELSE "rejected"]
    /\ abortListener' = IF runPc[p] = "awaitExit" THEN abortListener \ {p}
                                                  ELSE abortListener
    /\ UNCHANGED <<abortKilled, aborted, closeStep, settledBy>>
    /\ UNCHANGED runFrame

RunNext ==
    \/ \E p \in Procs, hasSignal \in BOOLEAN, reg \in BOOLEAN : run(p, hasSignal, reg)
    \/ Abort
    \/ \E p \in Procs, k \in {"zero", "nonzero"} : RunExit(p, k)

RunSpec == RunInit /\ [][RunNext]_vars

\* ---- stopExistingRojo (rojo-lock-manager.ts:86-109) ----
\* The process the lock file records is RootPid of the process table.

stopFrame == <<pmVars, sigVars, sharedVars, portVars, watchVars, command, cmdPc,
               cmdExit, exitKind, watchCmdVars, studioCmdVars, launchVars, runVars>>
\* The tree variables killProcess leaves alone.
walkVars == <<platform, members, ktPc, tree, processQueue, allPids, calls,
              deadAtStart>>

\* writeRojoLock: `${pid}\n${port}\n${startTime}`.
WrittenLock == <<<<"7">>, <<"7">>, <<"7">>>>

\* The process tables at the call: a child was spawned after its parent.
StopTables == {par \in Tables : \A p \in Pids : par[p] < p}

StopInit ==
    /\ variant = "tree"
    /\ ProcessManagerInit
    /\ SignalInit
    /\ UtilIdle
    /\ platform \in {"posix", "win32"}
    /\ \E par \in StopTables : TreeStart(par)
    /\ members = Below(parent, {RootPid})
    /\ pidAlive = TRUE
    /\ portBound \in BOOLEAN
    /\ \E f \in {Absent, WrittenLock, <<<<"7">>, <<"x">>>>} : LockStart(f)

\* stopExistingRojo up to its first await: readRojoLock(lockPath).
stopExistingRojo ==
    /\ stopPc = "idle"
    /\ readRojoLock
    /\ stopPc' = "read"
    /\ UNCHANGED <<killResult, treeVars>>

\* A step of readRojoLock or of cleanupLockfile while stopExistingRojo, or
\* the later reader, awaits it.
StopLockStep(A) ==
    /\ stopPc \in {"read", "cleanup", "reread"}
    /\ A
    /\ UNCHANGED <<stopVars, treeVars>>

\* `const lockData = await readRojoLock(lockPath)` returns: null ends the
\* call, a record leads to killProcess(lockData.pid).
LockDataRead ==
    /\ stopPc = "read"
    /\ rlPc = "done"
    /\ IF returned = "null"
       THEN stopPc' = "returned" /\ killResult' = killResult
       ELSE stopPc' = "kill" /\ killResult' = "pending"
    /\ UNCHANGED <<lockVars, treeVars>>

\* The PIDs the command of killProcess names: `kill -9 PID`,
\* `taskkill /f /pid PID`.
KillTargetsTree(pid) == Below(parent, {pid})
KillTargets(pid) == {pid}

\* killProcess(lockData.pid) settles (ok = FALSE: the command failed and
\* run() threw); either way cleanupLockfile(lockPath) is called next.
KillProcessDone(ok) ==
    /\ stopPc = "kill"
    /\ ok => RootPid \in alive
    /\ killResult' = IF ok THEN "ok" ELSE "failed"
    /\ attempts' = attempts \o Ascending(KillTargets(RootPid))
    /\ LET dead == IF ok THEN KillTargets(RootPid) \cap alive ELSE {}
       IN  /\ delivered' = delivered \cup dead
           /\ alive' = alive \ dead
           /\ parent' = [q \in Pids |-> IF parent[q] \in dead THEN 0 ELSE parent[q]]
           /\ pidAlive' = (pidAlive /\ RootPid \notin dead)
           /\ portBound' = (portBound /\ RootPid \notin dead)
    /\ EnterCleanup
    /\ stopPc' = "cleanup"
    /\ UNCHANGED <<walkVars, lockFile, rlPc, lines, returned, passed>>

CleanupSettled == cleanupPc \in {"removed", "gone", "silent", "warned"}

\* cleanupLockfile has returned: stopExistingRojo returns.
StopReturns ==
    /\ stopPc = "cleanup"
    /\ CleanupSettled
    /\ stopPc' = "returned"
    /\ UNCHANGED <<killResult, lockVars, treeVars>>

\* What stopExistingRojo returned.
StopResult == stopPc \in {"returned", "reread"} /\ killResult = "ok"

\* A later readRojoLock(lockPath) of the same path.
SubsequentRead ==
    /\ stopPc = "returned"
    /\ stopPc' = "reread"
    /\ rlPc' = "read"
    /\ lines' = <<>>
    /\ returned' = "pending"
    /\ passed' = {}
    /\ cleanupPc' = "idle"
    /\ attempt' = 0
    /\ delays' = <<>>
    /\ UNCHANGED <<killResult, lockFile, pidAlive, portBound, treeVars>>

\* The recorded server exits by itself and releases its port.
ServerExits ==
    /\ ProcessDies(RootPid)
    /\ pidAlive' = FALSE
    /\ portBound' = FALSE
    /\ UNCHANGED <<stopVars, lockFile, rlPc, lines, returned, passed, cleanupPc,
                   attempt, delays>>

StopNext ==
    \/ stopExistingRojo /\ UNCHANGED stopFrame
    \/ \E ok \in BOOLEAN : StopLockStep(ReadLockfileDone(ok)) /\ UNCHANGED stopFrame
    \/ \E ok \in BOOLEAN : StopLockStep(IsProcessAliveDone(ok)) /\ UNCHANGED stopFrame
    \/ StopLockStep(IsPortAvailableDone) /\ UNCHANGED stopFrame
    \/ \E outcome \in {"ok", "ENOENT", "EBUSY", "EPERM"} :
          StopLockStep(RemoveAttempt(outcome)) /\ UNCHANGED stopFrame
    \/ LockDataRead /\ UNCHANGED stopFrame
    \/ \E ok \in BOOLEAN : KillProcessDone(ok) /\ UNCHANGED stopFrame
    \/ StopReturns /\ UNCHANGED stopFrame
    \/ SubsequentRead /\ UNCHANGED stopFrame
    \/ ServerExits /\ UNCHANGED stopFrame

StopSpec == StopInit /\ [][StopNext]_vars

(***************************************************************************)
(* The serve command (src/src/commands/serve.ts over the Node revisions of *)
(* the ProcessManager, src/unnamed/part_011 over the Bun revision): it     *)
(* starts the Rojo server, writes the server lock, waits for the server    *)
(* and calls cleanupRojoLock in a `finally`.                               *)
(***************************************************************************)

serveFrame == <<treeVars, sharedVars, portVars, watchVars, command, watchCmdVars,
                studioCmdVars, launchVars, runVars, stopVars>>
lockRest == <<pidAlive, portBound, rlPc, lines, returned, passed>>

\* What an earlier server may have left at the lock path.
StaleLock == <<<<"7">>, <<"x">>>>

ServeInit ==
    /\ variant \in Variants
    /\ ProcessManagerInit
    /\ SignalInit
    /\ TreeIdle
    /\ SharedIdle
    /\ PortIdle
    /\ WatchIdle
    /\ command = "serve"
    /\ CmdRest
    /\ pidAlive = FALSE
    /\ portBound = FALSE
    /\ \E f \in {Absent, StaleLock} : LockStart(f)

ServeOver == cmdPc \in {"returned", "threw"}

\* loadProjectConfig, stopExistingRojo and findAvailablePort have settled
\* (ok = FALSE: one of them threw, and so does the command).
ServePrepared(ok) ==
    /\ CmdAlive
    /\ signalHandlersSetup
    /\ cmdPc = "idle"
    /\ cmdPc' = IF ok THEN "start" ELSE "threw"
    /\ UNCHANGED <<cmdExit, exitKind>>
    /\ UNCHANGED <<pmVars, sigVars, lockVars, serveFrame>>

\* startRojoServer up to its await: the server is spawned and registered,
\* writeRojoLock is called.
startRojoServer(p) ==
    /\ CmdAlive
    /\ cmdPc = "start"
    /\ p = rojoHandle
    /\ register(p)
    /\ exitKind' = [exitKind EXCEPT ![p] = "running"]
    /\ cmdPc' = "writing"
    /\ UNCHANGED cmdExit
    /\ UNCHANGED <<sigVars, lockVars, serveFrame>>

\* writeRojoLock settles (ok = FALSE: fs.writeFile failed, which is logged);
\* the command goes on to wait for the server.
WriteRojoLockDone(ok) ==
    /\ CmdAlive
    /\ cmdPc = "writing"
    /\ lockFile' = IF ok THEN WrittenLock ELSE lockFile
    /\ cmdPc' = "waiting"
    /\ UNCHANGED <<cmdExit, exitKind, lockRest, cleanupPc, attempt, delays>>
    /\ UNCHANGED <<pmVars, sigVars, serveFrame>>

\* The server ends in the way k.
ServerExit(p, k) ==
    /\ CmdAlive
    /\ ~ServeOver
    /\ exitKind[p] = "running"
    /\ ProcExit(p)
    /\ exitKind' = [exitKind EXCEPT ![p] = k]
    /\ UNCHANGED <<cmdPc, cmdExit>>
    /\ UNCHANGED <<sigVars, lockVars, serveFrame>>

\* What the command awaits rejects: the execa subprocess does when the
\* server ended otherwise than with code 0; `subprocess.exited` of Bun never
\* does.
WaitRejects(p) == IsNode(variant) /\ exitKind[p] # "zero"

\* The awaited promise settles (cancelled: the spinner's loop of
\* waitForServerOrCancellation won the race); handleProcessExit decides
\* whether the error is thrown again, and `finally` calls cleanupRojoLock.
ServeWaitSettled(p, cancelled) ==
    /\ CmdAlive
    /\ cmdPc = "waiting"
    /\ p = rojoHandle
    /\ IF cancelled THEN IsNode(variant) ELSE Settled(p)
    /\ LET rejected == ~cancelled /\ WaitRejects(p)
           graceful == GracefulShutdown(shuttingDown, ExecaErrorOf(exitKind[p]))
       IN  cmdPc' = IF rejected /\ ~graceful THEN "finallyThrow" ELSE "finallyReturn"
    /\ EnterCleanup
    /\ UNCHANGED <<cmdExit, exitKind, lockFile, lockRest>>
    /\ UNCHANGED <<pmVars, sigVars, serveFrame>>

\* One turn of the loop of cleanupLockfile under cleanupRojoLock.
ServeLockStep(outcome) ==
    /\ CmdAlive
    /\ cmdPc \in {"finallyThrow", "finallyReturn"}
    /\ RemoveAttempt(outcome)
    /\ UNCHANGED <<cmdPc, cmdExit, exitKind>>
    /\ UNCHANGED <<pmVars, sigVars, serveFrame>>

\* cleanupRojoLock has returned: the command returns, or throws the error
\* handleProcessExit threw.
ServeEnds ==
    /\ CmdAlive
    /\ cmdPc \in {"finallyThrow", "finallyReturn"}
    /\ CleanupSettled
    /\ cmdPc' = IF cmdPc = "finallyThrow" THEN "threw" ELSE "returned"
    /\ UNCHANGED <<cmdExit, exitKind>>
    /\ UNCHANGED <<pmVars, sigVars, lockVars, serveFrame>>

ServeNext ==
    \/ cmdPc = "idle" /\ ~signalHandlersSetup /\ setupSignalHandlers
    \/ \E ok \in BOOLEAN : ServePrepared(ok)
    \/ \E p \in Procs : startRojoServer(p)
    \/ \E ok \in BOOLEAN : WriteRojoLockDone(ok)
    \/ \E p \in Procs, k \in ExitKinds : ServerExit(p, k)
    \/ \E p \in Procs, cancelled \in BOOLEAN : ServeWaitSettled(p, cancelled)
    \/ \E outcome \in {"ok", "ENOENT", "EBUSY", "EPERM"} : ServeLockStep(outcome)
    \/ ServeEnds
    \/ \E c \in Callers, o \in KillFns :
          CmdAlive /\ ~ServeOver /\ Handler("SIGINT", c, o)
    \/ \E c \in Callers : CmdAlive /\ ~ServeOver /\ HandlerResume(c)
    \/ \E p \in Procs, o \in KillChoices :
          CmdAlive /\ GracefulTimeout(p, o) /\ UNCHANGED <<sigVars, restVars>>
    \/ \E o \in KillFns :
          CmdAlive /\ OverallTimeout(o) /\ UNCHANGED <<sigVars, restVars>>
    \/ \E k \in killing, r \in TreeOutcomes :
          CmdAlive /\ KillProcessTreeDone(k, r) /\ UNCHANGED <<sigVars, restVars>>

ServeSpec == ServeInit /\ [][ServeNext]_vars

(***************************************************************************)
(* Two invocations of `serve` for the same project, side by side.  Each    *)
(* runs action(): stopExistingRojo, startRojoServer with writeRojoLock,    *)
(* the wait for its server, and cleanupRojoLock in the finally block.  The *)
(* lock file is one path for both; a step is the code between two awaits.  *)
(***************************************************************************)

duelFrame == <<sharedFile, shPc, shOp, shPid, existingPids, shWarned, peer, sync,
               pmVars, sigVars, treeVars, lockVars, portVars, watchVars, cmdVars>>

DuelInit ==
    /\ variant = "tree"
    /\ ProcessManagerInit
    /\ SignalInit
    /\ TreeIdle
    /\ LockIdle
    /\ UtilIdle

DuelAt(i, at) == duel.pc[i] = at
DuelGoes(i, to) == [duel.pc EXCEPT ![i] = to]

\* action() begins: stopExistingRojo reads the lock file.
DuelAction(i) ==
    /\ DuelAt(i, "idle")
    /\ duel' = [duel EXCEPT !.pc = DuelGoes(i, "read")]

\* readRojoLock: the file is read and parsed; no file gives null, and the
\* invocation goes on to start its server.
DuelReadRojoLock(i) ==
    /\ DuelAt(i, "read")
    /\ duel' = [duel EXCEPT !.lockData[i] = duel.lock,
                            !.pc = DuelGoes(i, IF duel.lock = 0 THEN "spawn"
                                                                ELSE "probe")]

\* readRojoLock: isProcessAlive and isPortAvailable of the recorded server;
\* a stale record is deleted by path and null returned.
DuelProbed(i) ==
    /\ DuelAt(i, "probe")
    /\ IF duel.lockData[i] \in duel.up
       THEN duel' = [duel EXCEPT !.pc = DuelGoes(i, "kill")]
       ELSE duel' = [duel EXCEPT !.lock = 0,
                                 !.lockData[i] = 0,
                                 !.pc = DuelGoes(i, "spawn")]

\* stopExistingRojo: killProcess(lockData.pid) has settled either way.
DuelKilled(i, ok) ==
    /\ DuelAt(i, "kill")
    /\ duel' = [duel EXCEPT !.up = IF ok THEN @ \ {duel.lockData[i]} ELSE @,
                            !.pc = DuelGoes(i, "unlink")]

\* stopExistingRojo: cleanupLockfile(lockPath), in the try and in the catch.
DuelUnlinked(i) ==
    /\ DuelAt(i, "unlink")
    /\ duel' = [duel EXCEPT !.lock = 0, !.pc = DuelGoes(i, "spawn")]

\* startRojoServer: the server of invocation i is spawned (its PID is i).
DuelSpawned(i) ==
    /\ DuelAt(i, "spawn")
    /\ duel' = [duel EXCEPT !.up = @ \cup {i}, !.pc = DuelGoes(i, "write")]

\* startRojoServer: writeRojoLock has settled; a failed write only warns.
DuelWritten(i, ok) ==
    /\ DuelAt(i, "write")
    /\ duel' = [duel EXCEPT !.lock = IF ok THEN i ELSE @,
                            !.pc = DuelGoes(i, "wait")]

\* The server of invocation i exits: killed by the other invocation, by a
\* signal to its own, or on its own.
DuelServerExits(i) ==
    /\ i \in duel.up
    /\ duel.pc[i] \in {"write", "wait"}
    /\ duel' = [duel EXCEPT !.up = @ \ {i}]

\* waitForServerOrCancellation settles once the server has exited.
DuelWaitSettled(i) ==
    /\ DuelAt(i, "wait")
    /\ i \notin duel.up
    /\ duel' = [duel EXCEPT !.pc = DuelGoes(i, "finally")]

\* finally: cleanupRojoLock(config) removes the file at the lock path.
DuelCleanupRojoLock(i) ==
    /\ DuelAt(i, "finally")
    /\ duel' = [duel EXCEPT !.lock = 0, !.pc = DuelGoes(i, "ended")]

DuelNext ==
    \/ \E i \in Invocations : DuelAction(i) /\ UNCHANGED duelFrame
    \/ \E i \in Invocations : DuelReadRojoLock(i) /\ UNCHANGED duelFrame
    \/ \E i \in Invocations : DuelProbed(i) /\ UNCHANGED duelFrame
    \/ \E i \in Invocations, ok \in BOOLEAN : DuelKilled(i, ok) /\ UNCHANGED duelFrame
    \/ \E i \in Invocations : DuelUnlinked(i) /\ UNCHANGED duelFrame
    \/ \E i \in Invocations : DuelSpawned(i) /\ UNCHANGED duelFrame
    \/ \E i \in Invocations, ok \in BOOLEAN : DuelWritten(i, ok) /\ UNCHANGED duelFrame
    \/ \E i \in Invocations : DuelServerExits(i) /\ UNCHANGED duelFrame
    \/ \E i \in Invocations : DuelWaitSettled(i) /\ UNCHANGED duelFrame
    \/ \E i \in Invocations : DuelCleanupRojoLock(i) /\ UNCHANGED duelFrame

DuelSpec == DuelInit /\ [][DuelNext]_vars

(***************************************************************************)
(* syncback watch mode (watchMode).  Two revisions: "inline" sets up its   *)
(* own chokidar handlers for the lock file (add, unlink); "watcher" hands  *)
(* the lock file to watchStudioLockFile with an onStudioClose callback.    *)
(* Both share the change handler and waitForCompletion.                    *)
(***************************************************************************)

SyncRevisions == {"inline", "watcher"}

syncFrame == <<sharedFile, shPc, shOp, shPid, existingPids, shWarned, peer, duel,
               pmVars, sigVars, treeVars, lockVars, portVars, watchVars, cmdVars>>

SyncInit ==
    /\ variant = "tree"
    /\ ProcessManagerInit
    /\ SignalInit
    /\ TreeIdle
    /\ LockIdle
    /\ PortIdle
    /\ WatchIdle
    /\ CmdIdle
    /\ sharedFile = [exists |-> FALSE, lines |-> <<>>]
    /\ shPc = "idle"
    /\ shOp = "none"
    /\ shPid = 0
    /\ existingPids = <<>>
    /\ shWarned = FALSE
    /\ peer = PeerIdle
    /\ duel = DuelIdle
    /\ \E revision \in SyncRevisions, lockExists \in BOOLEAN :
          sync = SyncState(revision, lockExists)

\* The watcher of the input file delivers events until shutdown() closes it.
WatcherOpen == sync.pc = "watching"
\* The process has not exited.
SyncAlive == sync.pc # "interrupted"

\* Time passes.
Tick ==
    /\ SyncAlive
    /\ sync.now < MaxClock
    /\ sync' = [sync EXCEPT !.now = @ + TickMs]

\* now - state.lastModified < DEBOUNCE_DELAY_MS
NeverDebounced(now, lastModified) == FALSE
Debounced(now, lastModified) == now - lastModified < DEBOUNCE_DELAY_MS

\* The change handler, for a change of the input file: dropped while a run
\* is in progress or within the debounce delay, else a run is started.
handleFileChange ==
    /\ WatcherOpen
    /\ IF sync.isProcessing
       THEN sync' = [sync EXCEPT !.lastChange = "busy"]
       ELSE IF Debounced(sync.now, sync.lastModified)
       THEN sync' = [sync EXCEPT !.lastChange = "debounced"]
       ELSE sync' = [sync EXCEPT !.lastModified = sync.now,
                                 !.isProcessing = TRUE,
                                 !.started = @ + 1,
                                 !.lastChange = "started"]

\* executeSyncback settles, with the run succeeded or failed; the finally
\* block clears the flag.
ExecuteSyncbackDone(ok) ==
    /\ SyncAlive
    /\ sync.isProcessing
    /\ sync' = [sync EXCEPT !.isProcessing = FALSE,
                            !.ended = @ + 1,
                            !.lastResult = IF ok THEN "ok" ELSE "failed"]

\* The watcher of the lock file delivers events: in the inline revision it
\* is the watcher of the input file, in the watcher revision the one of
\* watchStudioLockFile, closed by the first cleanup().
LockWatcherOpen ==
    WatcherOpen /\ (sync.revision = "watcher" => sync.lockClosing = 0)

\* The external application creates its lock file; the "add" handler of the
\* inline revision sets hasLockfile.
LockAdded ==
    /\ LockWatcherOpen
    /\ ~sync.lockExists
    /\ sync' = [sync EXCEPT !.lockExists = TRUE,
                            !.hasLockfile = (sync.revision = "inline")]

\* waitForCompletion: while (state.isProcessing)
PollsNever == FALSE
StillProcessing == sync.isProcessing

\* waitForCompletion has returned to an unlink handler: the inline revision
\* resolves the promise of watchMode, which goes on to shutdown(); the
\* watcher revision first closes the lock watcher (cleanup()).
WaitReturned(state) ==
    IF state.revision = "inline"
    THEN [state EXCEPT !.pc = IF @ = "watching" THEN "closing" ELSE @]
    ELSE [state EXCEPT !.lockClosing = @ + 1]

\* The lock file is removed (the inline revision ignores the event unless it
\* has seen the file added).  With no run in progress the unlink handler
\* runs through waitForCompletion at once; else it waits, polling.
LockRemoved ==
    /\ LockWatcherOpen
    /\ sync.lockExists
    /\ sync.waiting + sync.lockClosing < MaxUnlinks
    /\ LET gone == [sync EXCEPT !.lockExists = FALSE,
                                 !.during = IF sync.isProcessing
                                            THEN sync.started ELSE @]
       IN  IF sync.revision = "inline" /\ ~sync.hasLockfile
           THEN sync' = gone
           ELSE IF StillProcessing
           THEN sync' = [gone EXCEPT !.waiting = @ + 1]
           ELSE sync' = WaitReturned(gone)

\* A poll of waitForCompletion finds the flag cleared.
waitForCompletion ==
    /\ SyncAlive
    /\ sync.waiting > 0
    /\ ~StillProcessing
    /\ sync' = WaitReturned([sync EXCEPT !.waiting = @ - 1])

\* watchStudioLockFile: cleanup() has closed the lock watcher; resolve(),
\* and watchMode goes on to shutdown().
LockWatcherClosed ==
    /\ SyncAlive
    /\ sync.lockClosing > 0
    /\ sync' = [sync EXCEPT !.lockClosing = @ - 1,
                            !.pc = IF @ = "watching" THEN "closing" ELSE @]

\* shutdown(): state.watcher.close() has settled; the command finishes.
SyncShutdownDone ==
    /\ sync.pc = "closing"
    /\ sync' = [sync EXCEPT !.pc = "ended"]

\* SIGINT or SIGTERM ends the process.
SyncInterrupted ==
    /\ sync.pc \in {"watching", "closing"}
    /\ sync' = [sync EXCEPT !.pc = "interrupted"]

SyncNext ==
    \/ Tick /\ UNCHANGED syncFrame
    \/ handleFileChange /\ UNCHANGED syncFrame
    \/ \E ok \in BOOLEAN : ExecuteSyncbackDone(ok) /\ UNCHANGED syncFrame
    \/ LockAdded /\ UNCHANGED syncFrame
    \/ LockRemoved /\ UNCHANGED syncFrame
    \/ waitForCompletion /\ UNCHANGED syncFrame
    \/ LockWatcherClosed /\ UNCHANGED syncFrame
    \/ SyncShutdownDone /\ UNCHANGED syncFrame
    \/ SyncInterrupted /\ UNCHANGED syncFrame

SyncSpec == SyncInit /\ [][SyncNext]_vars

\* ---- properties ----

Live(p) == exitCode[p] = "null"
Tracked == Range(processes)
Called(c) == callerPromise[c] # 0
\* The manager has invoked a kill primitive: SIGTERM goes to exactly the
\* collected handles, SIGKILL to the forced ones.
SignalSent == collected # {} \/ forced # {}
AllHooksInvokedOnce == \A h \in Range(cleanupHooks) : hookCalls[h] = 1

C4_TimeoutForceKillsAll ==
    [][(\E o \in KillFns : OverallTimeout(o)) =>
          \A p \in Tracked : Live(p) => p \in forced']_vars

\* C5: when the graceful-shutdown timer of a process that has not exited
\* fires, SIGKILL is requested for it.
C5_GracefulTimeoutForceKills ==
    [][\A p \in Procs :
          (\E o \in KillChoices : GracefulTimeout(p, o)) => p \in forced']_vars

\* C6: whatever the subprocesses do, every call of cleanup() is eventually
\* followed by the resolution of the cleanup promise.
C6_CleanupResolves ==
    \A c \in Callers : Called(c) ~> (cleanupPromise = "resolved")

C6_Witness ==
    /\ cleanupPromise = "resolved"
    /\ \E p \in forced : Live(p)

\* C7: once shutdown has begun no step adds a handle to the registry or
\* attaches an exit observer; a refused registration only logs.
C7_RegisterRejected ==
    [][isShuttingDown =>
          /\ Range(processes') \subseteq Range(processes)
          /\ exitListeners' \subseteq exitListeners
          /\ \A p \in Procs : observers'[p] <= observers[p]]_vars

C7_Witness == warned /\ isShuttingDown

\* C8: the exit event of a process takes it out of the registry.
C8_ExitUnregisters ==
    [][\A p \in Procs :
          exitCode[p] = "null" /\ exitCode'[p] = "set" => ~Has(processes', p)]_vars

C8_Witness == autoRemoved /\ ~isShuttingDown

\* C9: no handle occurs twice in the registry.
C9_RegistryNoDuplicates == NoDuplicates(processes)

C9_Witness == \E p \in Procs : Has(processes, p) /\ observers[p] >= 2

\* C10: the shutdown flag is false until cleanup() is first called, true
\* from that call on, and never goes back to false.
C10_ShutdownFlagMonotone ==
    /\ [](isShuttingDown <=> \E c \in Callers : Called(c))
    /\ [][isShuttingDown => isShuttingDown']_vars

C10_Witness == isShuttingDown /\ pc = "done" /\ \A c \in Callers : Called(c)

\* C11: the handler a signal runs calls cleanup() (shutdown has begun when
\* it returns), and no handler of a signal ever calls process.exit.
C11_SignalHandlerLeavesExit ==
    /\ [][\A e \in Signals :
             (\E c \in Callers, o \in KillFns : Handler(e, c, o)) =>
                 isShuttingDown' /\ cleanupPromise' # "null"]_vars
    /\ [](exited \notin Signals)

\* The PIDs buildProcessTree recorded below pid.
RECURSIVE RecordedBelow(_)
RecordedBelow(S) ==
    LET N == S \cup UNION {Range(tree[q]) : q \in S}
    IN  IF N = S THEN S ELSE RecordedBelow(N)
Before(i) == {attempts[j] : j \in 1..(i - 1)}

\* C12: process.kill is called on a PID only after it was called on every
\* PID recorded below it, and a completed POSIX call has signalled every
\* collected PID, the root last.
C12_ChildrenBeforeParents ==
    /\ \A i \in 1..Len(attempts) :
           RecordedBelow({attempts[i]}) \ {attempts[i]} \subseteq Before(i)
    /\ (ktPc = "done" /\ platform = "posix") =>
           /\ attempts[Len(attempts)] = RootPid
           /\ Range(attempts) = RecordedBelow({RootPid})

C12_Witness ==
    /\ ktPc = "done"
    /\ Len(attempts) = NumPids
    /\ \E a, b \in Pids : Has(tree[a], b) /\ Len(tree[b]) >= 2

\* C13: a PID that does not exist when killPids reaches it (ESRCH) raises no
\* error and the loop goes on: a call that does not fail has called
\* process.kill on every collected PID and delivered the signal to each one
\* that existed.
C13_MissingPidSkipped ==
    /\ [][KillStep("ESRCH") =>
             /\ ktPc' \in {"kill", "done"}
             /\ Len(attempts') = Len(attempts) + 1]_vars
    /\ [][\A p \in Pids :
             (KillStep("none") /\ attempts' = Append(attempts, p)) =>
                 p \in delivered']_vars
    /\ []((ktPc = "done" /\ platform = "posix") => attempts = allPids)

C13_Witness ==
    /\ ktPc = "done"
    /\ \E i, j \in 1..Len(attempts) :
           /\ i < j
           /\ attempts[i] \notin delivered
           /\ attempts[j] \in delivered

\* C14: a call of killProcessTree on the root PID made when every process
\* of the tree has exited raises no error and delivers no signal.
C14_KillTreeIdempotent ==
    deadAtStart => ktPc # "failed" /\ delivered = {}

C14_Witness ==
    /\ calls = 2
    /\ deadAtStart
    /\ ktPc = "done"

\* The record readRojoLock read has three numeric fields.
RecordRead == lines # <<>> /\ FieldsParse(lines)

\* C15: readRojoLock on a lock whose recorded PID is not alive or whose
\* recorded port is free returns null, and the file is gone when it returns.
C15_StaleLockSelfHeals ==
    (rlPc = "done" /\ RecordRead /\ (~pidAlive \/ ~portBound)) =>
        returned = "null" /\ lockFile = Absent

\* C16: readRojoLock returns a record only if both of its checks passed in
\* that call, the fields parsed, the PID is alive and the port is bound.
C16_ValidOnlyIfBothChecks ==
    returned = "record" =>
        /\ passed = {"alive", "port"}
        /\ RecordRead
        /\ pidAlive
        /\ portBound

\* C17: cleanupLockfile makes at most MAX_LOCKFILE_CLEANUP_RETRIES deletion
\* attempts, waits a delay that doubles from one retry to the next, returns
\* at once when an attempt succeeds, and when the file stays busy through
\* the last attempt it logs the warning and returns; it never leaves its
\* loop in any other way.
C17_BusyDeleteRetried ==
    /\ [](/\ attempt < MAX_LOCKFILE_CLEANUP_RETRIES
          /\ Len(delays) = attempt
          /\ \A i, j \in 1..Len(delays) : i < j => delays[i] < delays[j]
          /\ \A i \in 2..Len(delays) : delays[i] = 2 * delays[i - 1]
          /\ cleanupPc \in {"idle", "retry", "removed", "gone", "warned"}
          /\ cleanupPc = "removed" => lockFile = Absent)
    /\ [][RemoveAttempt("ok") => cleanupPc' = "removed"]_vars
    /\ [][(RemoveAttempt("EBUSY") /\ IsLastAttempt(attempt)) =>
             cleanupPc' = "warned"]_vars

C17_Witness ==
    /\ cleanupPc = "warned"
    /\ Len(delays) = MAX_LOCKFILE_CLEANUP_RETRIES - 1

\* The PIDs the shared lock file lists.
PidsIn(f) == IF f.exists THEN {n \in Pids : StrOf(n) \in Range(f.lines)} ELSE {}
\* A call of addPidToLockfile or removePidFromLockfile returns in this step.
CallReturns == shPc # "returned" /\ shPc' = "returned"
\* What the returning call was to make of the file.
AddRemoveEffect ==
    /\ NoDuplicates(sharedFile'.lines)
    /\ IF shOp = "add"
       THEN PidsIn(sharedFile') = PidsIn(sharedFile) \cup {shPid}
       ELSE /\ PidsIn(sharedFile') = PidsIn(sharedFile) \ {shPid}
            /\ PidsIn(sharedFile') = {} => ~sharedFile'.exists

ProbeRange == startPort..(startPort + ROJO_MAX_PORT_ATTEMPTS - 1)
FreeInRange == ProbeRange \ boundPorts
\* C19: the probes made are start, start+1, ... in that order with none
\* left out; the port returned is the lowest free port of the range and no
\* port past it is probed; the call throws only when no port of the range is
\* free, after probing all of them, and its message names start and
\* start+maxAttempts-1.  The outcome is a function of the start port and of
\* the ports in use.
C19_FirstAvailablePort ==
    /\ \A i \in 1..Len(probed) : probed[i] = startPort + i - 1
    /\ Len(probed) <= ROJO_MAX_PORT_ATTEMPTS
    /\ fpPc = "returned" =>
          /\ foundPort \in FreeInRange
          /\ \A q \in FreeInRange : foundPort <= q
          /\ probed[Len(probed)] = foundPort
          /\ triedRange = <<>>
    /\ fpPc = "threw" =>
          /\ FreeInRange = {}
          /\ Len(probed) = ROJO_MAX_PORT_ATTEMPTS
          /\ triedRange = <<startPort, startPort + ROJO_MAX_PORT_ATTEMPTS - 1>>
          /\ foundPort = 0
    /\ fpPc = "probing" => \A i \in 1..Len(probed) : probed[i] \in boundPorts
\* The first two ports are in use and the third is returned.
C19_Witness ==
    /\ fpPc = "returned"
    /\ foundPort = startPort + 2
    /\ {startPort, startPort + 1} \subseteq boundPorts

\* C20 (order of settlement): the promise of watchStudioLockFile is resolved
\* only once some onStudioClose has completed and watcher.close() has
\* settled.
C20_ResolvesAfterCloseAndCleanup ==
    wPromise = "resolved" =>
        closeCompleted >= 1 /\ watcher \in {"closed", "closeFailed"}

\* C21: when the watcher is created while the lock file exists and an
\* onStudioOpen callback was given, onStudioOpen has been invoked by then.
C21_ExistingLockReportedOpen ==
    [][(watcher = "none" /\ watcher' = "open" /\ studioLock /\ hasOnStudioOpen)
          => openCalls' >= 1]_vars

\* C22: in one watch session onStudioOpen is invoked at most once and
\* onStudioClose at most once, and once an "unlink" has been observed (its
\* handler has invoked onStudioClose) onStudioOpen is not invoked any more.
C22_OpenThenClosedOnce ==
    /\ [](openCalls <= 1 /\ closeCalls <= 1)
    /\ [][closeCalls >= 1 => openCalls' = openCalls]_vars

\* A shutdown handler of the watch has run.
Interrupted == \E sig \in WatchSignals : shutdownPc[sig] \in {"cleanup", "done"}

\* C23 (revision of studio-lock-watcher.ts): once SIGINT or SIGTERM was
\* handled, close() has been called on the watcher, and a promise that was
\* pending at that moment is not resolved any more: it stays pending until
\* it is rejected with "Shutdown".
C23_InterruptRejects ==
    /\ [](ShutdownRejects /\ Interrupted =>
             watcher \in {"closing", "closed", "closeFailed"})
    /\ [][(ShutdownRejects /\ Interrupted /\ wPromise = "pending")
             => wPromise' \in {"pending", "rejected"}]_vars

\* ---- the watch command (WatchCmdSpec) ----

\* A signal handler of the wiring has run: shutdown was requested.
ShutdownRequested == \E c \in Callers : awaiting[c] \in Signals
Terminated(p) == exitCode[p] = "set" \/ killed[p] \/ p \in forced

\* C24: when a watch subprocess ends first and no shutdown was requested,
\* the command exits non-zero only after coordinated cleanup has run to its
\* end and every other tracked subprocess has been terminated.
C24_FailureExitAfterCleanup ==
    (ExitStatus = "nonzero" /\ winner # 0 /\ ~ShutdownRequested)
        => /\ cleanupPromise = "resolved"
           /\ \A p \in Procs : exitKind[p] = "running" => Terminated(p)


\* C30: a hook that unregisterCleanupHook removed before cleanup() was first
\* called is never invoked by cleanup(); in the watch command the CLI's PID
\* is then removed from the shared lock file by the command alone, at most
\* once, and exactly once when the command has exited on that path.
C30_UnhookedNeverInvoked ==
    unhookedEarly =>
        /\ hookCalls[cleanupHook] = 0
        /\ removalsDone <= 1
        /\ cmdExit = "nonzero" => removalsDone = 1

\* The hook was removed, cleanup() ran past its hook loop all the same, and
\* the command has removed the PID itself and exited.
C30_Witness ==
    /\ unhookedEarly
    /\ passes = 1
    /\ pc \notin {"idle", "awaitHook"}
    /\ hookCalls[cleanupHook] = 0
    /\ cmdExit = "nonzero"
    /\ removalsDone = 1


\* ---- the open and start commands (StudioCmdSpec) ----

\* The watcher's promise resolved, and in the open command it was the first
\* of the race to settle.
WatcherFirst == wPromise = "resolved" /\ (command = "open" => settledBy = "watcher")
\* cleanup() has run to its end: every subprocess it found tracked has
\* exited or has had SIGKILL requested, and none is left in the registry.
CleanedUp ==
    /\ cleanupPromise = "resolved"
    /\ \A p \in Range(processes) \cup collected : exitCode[p] = "set" \/ p \in forced
CmdEnded == cmdPc \in {"returned", "threw", "exited"}
\* open returns normally; start calls process.exit(0).
EndedOk == IF command = "open" THEN cmdPc = "returned" ELSE cmdExit = "zero"

SigintArrives == sigints' = sigints + 1
\* The watcher has reported the lock file: onStudioOpen was invoked.
LockObserved == openCalls >= 1

\* C26: while the open command waits for Studio, a SIGINT that arrives
\* before the lock file was observed has Studio killed; a SIGINT that
\* arrives once it was observed starts no kill.
C26_InterruptKillsOnlyBeforeOpen ==
    [][(SigintArrives /\ Waiting) =>
          IF LockObserved THEN studioKill' = studioKill
                          ELSE studioKill' # "none"]_vars


\* ---- run() with a cancellation signal (RunSpec) ----

\* run() is called for p with a signal that is already aborted.
RunOnAborted(p) == runPc[p] = "idle" /\ runPc'[p] = "aborted"

\* C27: run() called with an already aborted signal fails at once with no
\* subprocess spawned and none registered; when the signal aborts after the
\* spawn, subprocess.kill() is called on the subprocess.
C27_AbortBeforeAndAfterSpawn ==
    /\ [][\A p \in Procs :
             RunOnAborted(p) => exitKind'[p] = "unborn" /\ ~Has(processes', p)]_vars
    /\ [][(~aborted /\ aborted') => abortListener \subseteq abortKilled']_vars

\* C28: stopExistingRojo on a lock whose recorded PID is alive and whose
\* port is bound attempts to kill the recorded PID together with all of its
\* descendants, and whether or not the kill succeeded a later readRojoLock
\* of the same path returns null.
KillSettles == killResult = "pending" /\ killResult' # "pending"
C28_StopKillsTreeAndClearsLock ==
    /\ [][KillSettles => KillTargetsTree(RootPid) \cap alive \subseteq Range(attempts')]_vars
    /\ [](stopPc = "reread" /\ rlPc = "done" /\ killResult # "none"
             => returned = "null")

\* C29: the serve command writes the server lock only after the server
\* subprocess was started, and on every way out once the server was started
\* (the server exits, graceful shutdown, an unexpected error that is thrown
\* again) cleanupRojoLock has been invoked, and has returned, before the
\* command is over.
ServerStarted == exitKind[rojoHandle] # "unborn"
CleanupRojoLockInvoked == cleanupPc # "idle"
Discovered == {RootPid} \cup UNION {Range(tree[p]) : p \in Pids}
TreeBuilt == platform = "posix" /\ ktPc \in {"kill", "done"}
C31_BuildProcessTreeTerminates ==
    /\ [](TreeBuilt => NoDuplicates(allPids) /\ Range(allPids) = Discovered)
    /\ [][ktPc = "walk" => ktPc' \in {"walk", "kill"}]_vars
    /\ (ktPc = "walk" ~> ktPc # "walk")

C31_Witness ==
    /\ ktPc = "kill"
    /\ Len(allPids) >= 3
    /\ \E p \in members \ Range(allPids) : p \in alive

\* C32: unregister(p) takes p, and p's exit observer, out of the registry
\* and changes nothing else: the other tracked processes keep their order
\* and their observers, the cleanup hooks are untouched; and cleanup sends
\* a signal only to a process that is in the registry when it is sent.
Signalled(p) ==
    \/ p \in collected
    \/ p \in forced
    \/ killed[p]
    \/ \E k \in killing : k[1] = p
C32_UnregisterFrame ==
    /\ [][\A p \in Procs :
             unregister(p) =>
                 /\ processes' = Remove(processes, p)
                 /\ exitListeners' = exitListeners \ {p}
                 /\ \A q \in Procs \ {p} : observers'[q] = observers[q]
                 /\ cleanupHooks' = cleanupHooks]_vars
    /\ [][\A p \in Procs :
             (~Signalled(p) /\ Signalled(p)') => Has(processes, p)]_vars

C32_Witness ==
    /\ variant = "bun"
    /\ \E p, q \in Procs :
          /\ observers[p] > 0 /\ exitCode[p] = "null" /\ ~Signalled(p)
          /\ ~Has(processes, p)
          /\ q \in collected
          /\ pc = "procs"

\* C33: when two CLI processes work on the shared lock file at the same
\* time, then once both calls have returned, two adds have left both PIDs
\* in the file, and an add next to a remove has left the added PID in the
\* file and the removed one out of it.
BothReturned == shPc = "returned" /\ peer.pc = "returned"
C33_ConcurrentAddRemove ==
    BothReturned =>
        /\ OwnPid \in PidsIn(sharedFile)
        /\ peer.op = "add" => peer.pid \in PidsIn(sharedFile)
        /\ peer.op = "remove" => peer.pid \notin PidsIn(sharedFile)

\* C34: the exit path of a serve invocation deletes the server lock only if
\* the lock records its own server: when the lock file records the running
\* server of the other invocation, cleanupRojoLock in the finally block of
\* this invocation leaves the file as it is.
ForeignLiveLock(i) == duel.lock # 0 /\ duel.lock # i /\ duel.lock \in duel.up
C34_ExitKeepsForeignLock ==
    [][\A i \in Invocations :
          (duel.pc[i] = "finally" /\ duel'.pc[i] = "ended" /\ ForeignLiveLock(i))
              => duel'.lock = duel.lock]_vars

\* C35: the overall cleanup timeout bounds the hook phase too: once a hook
\* has been invoked by the cleanup pass, the cleanup promise eventually
\* resolves, even if that hook never settles.
C35_TimeoutBoundsHooks == (running # {}) ~> (cleanupPromise = "resolved")

\* C36: when the promise of cleanup() has resolved the registry of tracked
\* processes is empty, whether or not a tracked process was still alive when
\* cleanup began.
C36_RegistryEmptyOnResolve == cleanupPromise = "resolved" => processes = <<>>

\* C37: in syncback watch mode at most one run is in progress; a run starts
\* only when none is in progress and at least the debounce delay after the
\* previously accepted change, so a change that arrives during a run or
\* within the delay starts none; and the in-progress flag is cleared when
\* the run ends, succeeded or failed.
RunsInProgress == sync.started - sync.ended
C37_OneRunDebounced ==
    /\ [](RunsInProgress \in {0, 1} /\ (sync.isProcessing <=> RunsInProgress = 1))
    /\ [][sync'.started # sync.started =>
             /\ ~sync.isProcessing
             /\ sync.now - sync.lastModified >= DEBOUNCE_DELAY_MS
             /\ sync'.lastModified = sync.now]_vars
    /\ [][sync'.ended # sync.ended => ~sync'.isProcessing]_vars

C37_Witness ==
    /\ sync.lastChange = "debounced"
    /\ sync.lastResult = "failed"
    /\ sync.started > 0
    /\ ~sync.isProcessing

\* C38: when the lock file is removed while a run is in progress, watchMode
\* does not go on to shutdown() (close the watcher, finish the command)
\* before that run has ended.
C38_ShutdownAfterRun ==
    sync.pc \in {"closing", "ended"} => sync.ended >= sync.during

C38_Witness == sync.pc = "ended" /\ sync.during > 0

\* C39: isGracefulShutdown(err) is true for every err while the manager is
\* shutting down, and otherwise exactly for an Error that carries the signal
\* SIGTERM or SIGINT; and when what `serve` awaits rejects with an error
\* classified this way, the command goes through its finally block and
\* returns: it never throws that error.
CarriesShutdownSignal(err) == err.isError /\ err.signal \in {"SIGTERM", "SIGINT"}
ServeCaught ==
    /\ cmdPc = "waiting"
    /\ cmdPc' # "waiting"
    /\ WaitRejects(rojoHandle)
    /\ Settled(rojoHandle)
C39_GracefulShutdownClassified ==
    /\ [](\A err \in Errs :
             GracefulShutdown(shuttingDown, err)
                 <=> (shuttingDown \/ CarriesShutdownSignal(err)))
    /\ [][(/\ ServeCaught
           /\ GracefulShutdown(shuttingDown, ExecaErrorOf(exitKind[rojoHandle])))
             => cmdPc' = "finallyReturn"]_vars
    /\ [][cmdPc = "finallyReturn" => cmdPc' \in {"finallyReturn", "returned"}]_vars

C39_Witness ==
    /\ command = "serve"
    /\ cmdPc = "returned"
    /\ IsNode(variant)
    /\ exitKind[rojoHandle] = "SIGTERM"
    /\ ~shuttingDown

\* C40: setupSignalHandlers is idempotent: however often it is called, the
\* wiring has installed exactly one listener for each of SIGINT, SIGTERM and
\* SIGQUIT (none before the first call), and a run of a listener calls
\* cleanup() once; so one delivered signal leads to one call of cleanup().
CleanupCallers == {c \in Callers : Called(c)}
C40_SetupIdempotent ==
    /\ [](\A s \in Signals : handlers[s] = IF signalHandlersSetup THEN 1 ELSE 0)
    /\ [][signalHandlersSetup => handlers' = handlers]_vars
    /\ [][CleanupCallers' # CleanupCallers =>
             /\ Cardinality(CleanupCallers') = Cardinality(CleanupCallers) + 1
             /\ signalHandlersSetup]_vars

C40_Witness ==
    /\ signalHandlersSetup
    /\ \A s \in Signals : handlers[s] = 1
    /\ Cardinality(CleanupCallers) = 1
    /\ cleanupPromise = "resolved"

====
